---- MODULE Spec2Model ----
(***************************************************************************)
(* Galv backend: the file-ingestion state machine, the storage allocator   *)
(* and the harvester report handler.                                       *)
(*                                                                         *)
(* Sources:                                                                *)
(*   galv/serializers/serializers.py  ObservedFileCreateSerializer,        *)
(*                                    ArbitraryFileCreateSerializer,       *)
(*                                    GalvStorageTypeSerializer            *)
(*   galv/tests/test_harvester.py     the report protocol as the tests pin *)
(*                                    it (status codes, resulting states)  *)
(* The report view and the storage models are not among the sources; what  *)
(* the tests do not pin of them follows the specification document.        *)
(***************************************************************************)
EXTENDS Integers, Sequences, FiniteSets, Bags, TLC

\* ---------------------------------------------------------------- bounds
MaxRows == 2            \* artifact rows (partitions, previews, files) kept
MaxHarvestErrors == 1   \* HarvestError rows kept
MaxTempFiles == 1       \* temporary copies of uploads left on disk

\* ------------------------------------------------------------- constants
OK == "200"                     \* status.HTTP_200_OK
BAD_REQUEST == "400"            \* status.HTTP_400_BAD_REQUEST
INSUFFICIENT_STORAGE == "507"   \* status.HTTP_507_INSUFFICIENT_STORAGE

AWAITING_FILE_METADATA == "AWAITING_FILE_METADATA"
AWAITING_MAP_ASSIGNMENT == "AWAITING_MAP_ASSIGNMENT"
IMPORTING == "IMPORTING"
IMPORTED == "IMPORTED"
IMPORT_FAILED == "IMPORT_FAILED"
NoFile == "NONE"        \* the ObservedFile row does not exist

FileState ==
  {AWAITING_FILE_METADATA, AWAITING_MAP_ASSIGNMENT, IMPORTING, IMPORTED, IMPORT_FAILED}

HarvesterFile == "f1"   \* the ObservedFile of the harvester's monitored path
UploadedFile == "f2"    \* the ObservedFile a user's upload creates
FileIds == {HarvesterFile, UploadedFile}
NoId == "none"

\* The lab's storage types in creation order (get_all_storage_types).
StorageOrder == <<"s1", "s2">>
StorageIds == {StorageOrder[i] : i \in 1..Len(StorageOrder)}
NoStorage == "none"
Priorities == {0, 1}
Quotas == {0, 2}        \* quota_bytes of a storage type: none, or two payloads

WorkerOrder == <<"w1", "w2">>   \* request workers of the server
Workers == {WorkerOrder[i] : i \in 1..Len(WorkerOrder)}
NoWorker == "none"

PartitionNumbers == {0, 1}
Sizes == {0, 1, 100000}         \* payload sizes in bytes
NoSummary == "none"
FirstSummary == "sumA"          \* the summary of the bytes first uploaded
Summaries == {FirstSummary, "sumB"}     \* column summaries of uploaded bytes
NoMapping == "none"
Mappings == {"m1"}

\* UserLevel: the levels of a user on a resource, lowest first (§3).
LevelOrder == <<"ANONYMOUS", "LAB_MEMBER", "TEAM_MEMBER", "TEAM_ADMIN", "LAB_ADMIN">>
UserLevel(name) == CHOOSE i \in 1..Len(LevelOrder) : LevelOrder[i] = name
ANONYMOUS == UserLevel("ANONYMOUS")
LAB_MEMBER == UserLevel("LAB_MEMBER")
TEAM_MEMBER == UserLevel("TEAM_MEMBER")
TEAM_ADMIN == UserLevel("TEAM_ADMIN")
LAB_ADMIN == UserLevel("LAB_ADMIN")

NoTeam == "none"
\* No resource yet; the thresholds are the serializer's defaults.
NoResource ==
  [exists |-> FALSE, team |-> NoTeam, read_access_level |-> LAB_MEMBER,
   edit_access_level |-> TEAM_MEMBER, delete_access_level |-> TEAM_MEMBER]

\* The map of a ColumnMapping: raw column name -> [column_type, ...].
NoColumnMap == [c \in {} |-> "none"]

\* No MonitoredPath yet.
NoHarvester == "none"
NoPath == [exists |-> FALSE, harvester |-> NoHarvester, team |-> NoTeam, active |-> TRUE]

\* The groups: the admin group of a lab (the group with editable_lab), the
\* admin group and the member group of a team; and the users there are,
\* the active ones and one who is not.
LabAdminGroup == "lab_admins"
TeamAdminGroup == "team_admins"
TeamMemberGroup == "team_members"
Groups == {LabAdminGroup, TeamAdminGroup, TeamMemberGroup}
ActiveUsers == {"alice", "bob"}
InactiveUser == "carol"

\* report stages (settings.HARVEST_STAGE_*)
STAGE_FILE_METADATA == "file_metadata"
STAGE_DATA_SUMMARY == "data_summary"
STAGE_UPLOAD_PARQUET == "upload_parquet"
STAGE_UPLOAD_PNG == "upload_png"
STAGE_UPLOAD_COMPLETE == "upload_complete"
STAGE_COMPLETE == "complete"
STAGE_FAILED == "failed"

VARIABLES
  storage,        \* [StorageIds -> [quota_bytes, priority, enabled]]
  files,          \* [FileIds -> [state, mapping, summary, metadata, upload_errors]]
  artifacts,      \* bag of rows [kind, file, number, storage, size]
  harvestErrors,  \* number of HarvestError rows
  lock,           \* worker holding the lock on the lab's storage rows
  pc,             \* [Workers -> "idle" | "reserved"]
  req,            \* [Workers -> the reservation the worker is serving]
  last,           \* the last completed request and its response
  resource,       \* a team-owned resource: its team and its three thresholds
  column_map,     \* the map of a saved ColumnMapping
  temp,           \* number of temporary copies of uploads left on disk
  monitored_path, \* a MonitoredPath: its harvester and its team
  user_set        \* [Groups -> the users in the group]

vars ==
  <<storage, files, artifacts, harvestErrors, lock, pc, req, last, resource,
    column_map, temp, monitored_path, user_set>>

\* The rows of the ingestion pipeline.
pipeline == <<storage, files, artifacts, harvestErrors, lock, pc, req>>

\* ------------------------------------------------------ storage allocator
\* get_bytes_used: the sizes of the artifacts attributed to storage type s,
\* summed on demand.
RECURSIVE SumSizes(_, _)
SumSizes(arts, rows) ==
  IF rows = {} THEN 0
  ELSE LET r == CHOOSE x \in rows : TRUE IN
       r.size * arts[r] + SumSizes(arts, rows \ {r})

get_bytes_used(arts, s) == SumSizes(arts, {r \in DOMAIN arts : r.storage = s})

\* Position of s in creation order.
CreationIndex(s) == CHOOSE i \in 1..Len(StorageOrder) : StorageOrder[i] = s

BeforeMutNoPriority(st, s, t) == CreationIndex(s) < CreationIndex(t)

\* s comes before t in the allocator's enumeration: ascending priority, then
\* creation order.
Before(st, s, t) ==
  \/ st[s].priority < st[t].priority
  \/ st[s].priority = st[t].priority /\ CreationIndex(s) < CreationIndex(t)

\* get_all_storage_types(lab): the lab's storage types as an ordered list.
get_all_storage_types(st) ==
  CHOOSE seq \in [1..Len(StorageOrder) -> StorageIds] :
    \A i, j \in 1..Len(StorageOrder) : i < j => Before(st, seq[i], seq[j])

HasRoomMutOffByOne(st, arts, s, n) == get_bytes_used(arts, s) + n <= st[s].quota_bytes + 1

\* used_bytes + num_bytes <= quota_bytes
HasRoom(st, arts, s, n) == get_bytes_used(arts, s) + n <= st[s].quota_bytes

\* A storage type the allocator may pick: enabled, with room for n bytes.
Usable(st, arts, s, n) == st[s].enabled /\ HasRoom(st, arts, s, n)

RECURSIVE FirstUsable(_, _, _, _, _)
FirstUsable(st, arts, seq, i, n) ==
  IF i > Len(seq) THEN NoStorage
  ELSE IF Usable(st, arts, seq[i], n) THEN seq[i]
  ELSE FirstUsable(st, arts, seq, i + 1, n)

\* reserve(lab, num_bytes): the first usable storage type of the ordered
\* list, or NoStorage (InsufficientStorage).
reserve(st, arts, n) == FirstUsable(st, arts, get_all_storage_types(st), 1, n)

\* ------------------------------------------------------------- the rows
Row(kind, f, number, s, n) ==
  [kind |-> kind, file |-> f, number |-> number, storage |-> s, size |-> n]

RowsOf(arts, kind, f) == {r \in DOMAIN arts : r.kind = kind /\ r.file = f}

\* The ParquetPartition rows of file f, as partition numbers.
PartitionNumbersOf(arts, f) == {r.number : r \in RowsOf(arts, "parquet", f)}

AddRow(arts, r) == arts (+) SetToBag({r})

Without(arts, drop) == [r \in DOMAIN arts \ drop |-> arts[r]]

RowCount(arts) == BagCardinality(arts)

NoRequest ==
  [op |-> "none", file |-> NoId, number |-> 0, size |-> 0, chosen |-> NoStorage]

\* A completed request: what was asked (op, file, the errors map of an
\* upload_complete report), the state the file was in, and the response
\* (status code, id of the ObservedFile it identifies).
Answer(op, f, code, id, before, errors) ==
  [op |-> op, file |-> f, code |-> code, id |-> id, before |-> before,
   errors |-> errors]

Response(op, f, code, id, before) == Answer(op, f, code, id, before, {})

FileRow(state, mapping, summary) ==
  [state |-> state, mapping |-> mapping, summary |-> summary,
   metadata |-> FALSE, upload_errors |-> {}]

Exists(f) == files[f].state # NoFile

\* ------------------------------------------------------------------ Init
Idle ==
  /\ artifacts = EmptyBag
  /\ harvestErrors = 0
  /\ lock = NoWorker
  /\ pc = [w \in Workers |-> "idle"]
  /\ req = [w \in Workers |-> NoRequest]
  /\ last = Response("none", NoId, OK, NoId, NoFile)
  /\ resource = NoResource
  /\ column_map = NoColumnMap
  /\ temp = 0
  /\ monitored_path = NoPath
  /\ user_set = [g \in Groups |-> {"alice"}]

\* A lab after LabSerializer.create gave it its Galv storage type (line 610;
\* quota_bytes is read-only through the API, line 464) and an additional
\* storage type was configured without quota; no ObservedFile yet.
Init ==
  /\ storage = [s \in StorageIds |->
       [quota_bytes |-> IF s = StorageOrder[1] THEN 2 ELSE 0,
        priority |-> 0, enabled |-> TRUE]]
  /\ files = [f \in FileIds |-> FileRow(NoFile, NoMapping, NoSummary)]
  /\ Idle

\* The allocator's scenarios: storage types of any quota, and the
\* harvester's file being imported (as test_parquet_upload sets it up).
InitStorage ==
  /\ storage \in [StorageIds -> [quota_bytes : Quotas, priority : {0}, enabled : {TRUE}]]
  /\ files = [f \in FileIds |->
       IF f = HarvesterFile THEN FileRow(IMPORTING, NoMapping, NoSummary)
       ELSE FileRow(NoFile, NoMapping, NoSummary)]
  /\ Idle

\* ------------------------------------------------- reservations (§4.4, §5)
LockFreeMutNoLock(w) == TRUE

\* The locking read on the lab's storage rows: no other request holds them.
LockFree(w) == lock = NoWorker

\* The harvester agent does not pipeline its reports: it sends one when the
\* last one was answered. Its reports are served by the first worker.
HarvesterIdle == pc[WorkerOrder[1]] = "idle"

\* A request goes to the first worker that is free.
FirstIdle(w) ==
  \A i, j \in 1..Len(WorkerOrder) :
    (WorkerOrder[j] = w /\ i < j) => pc[WorkerOrder[i]] # "idle"

InFlight == {w \in Workers : pc[w] = "reserved" /\ req[w].chosen # NoStorage}

\* A worker starts a write that needs storage: it locks the lab's storage
\* rows and decides the reservation from the bytes used now.
\*   upload_parquet, upload_png: a harvester's report on its ObservedFile
\*   arbitrary_file: ArbitraryFileCreateSerializer.create
ReserveBegin(w, op, number, n) ==
  /\ pc[w] = "idle"
  /\ FirstIdle(w)
  /\ LockFree(w)
  /\ op \in {STAGE_UPLOAD_PARQUET, STAGE_UPLOAD_PNG} => Exists(HarvesterFile)
  /\ LET chosen == reserve(storage, artifacts, n) IN
     /\ chosen # NoStorage => RowCount(artifacts) + Cardinality(InFlight) < MaxRows
     /\ req' = [req EXCEPT ![w] =
          [op |-> op,
           file |-> IF op = "arbitrary_file" THEN NoId ELSE HarvesterFile,
           number |-> IF op = STAGE_UPLOAD_PARQUET THEN number ELSE 0,
           size |-> n, chosen |-> chosen]]
  /\ pc' = [pc EXCEPT ![w] = "reserved"]
  /\ lock' = w
  /\ UNCHANGED <<storage, files, artifacts, harvestErrors, last, resource, column_map, temp, monitored_path, user_set>>

\* The rows after the write r commits to the storage type it reserved.
CommitRows(arts, r) ==
  CASE r.op = STAGE_UPLOAD_PARQUET ->
         \* partitions are append-only: an existing partition is kept
         IF r.number \in PartitionNumbersOf(arts, r.file) THEN arts
         ELSE AddRow(arts, Row("parquet", r.file, r.number, r.chosen, r.size))
    [] r.op = STAGE_UPLOAD_PNG ->
         \* a file has one preview image: the new one replaces the old
         AddRow(Without(arts, RowsOf(arts, "png", r.file)),
                Row("png", r.file, 0, r.chosen, r.size))
    [] OTHER -> AddRow(arts, Row("arbitrary", NoId, 0, r.chosen, r.size))

\* The write is committed, or refused with InsufficientStorage (507 for a
\* report, a validation error for an arbitrary file), and the lock released.
ReserveCommit(w) ==
  /\ pc[w] = "reserved"
  /\ LET r == req[w]
         before == IF r.file = NoId THEN NoFile ELSE files[r.file].state IN
     IF r.chosen = NoStorage
     THEN /\ artifacts' = artifacts
          /\ last' = Response(r.op, r.file,
                       IF r.op = "arbitrary_file" THEN BAD_REQUEST
                       ELSE INSUFFICIENT_STORAGE, NoId, before)
     ELSE /\ artifacts' = CommitRows(artifacts, r)
          /\ last' = Response(r.op, r.file, OK, r.file, before)
  /\ pc' = [pc EXCEPT ![w] = "idle"]
  /\ req' = [req EXCEPT ![w] = NoRequest]
  /\ lock' = IF lock = w THEN NoWorker ELSE lock
  /\ UNCHANGED <<storage, files, harvestErrors, resource, column_map, temp, monitored_path, user_set>>

\* GalvStorageTypeSerializer: priority and enabled are writable, quota_bytes
\* is not.
UpdateStorage(s, priority, enabled) ==
  /\ lock = NoWorker
  /\ storage' = [storage EXCEPT ![s].priority = priority, ![s].enabled = enabled]
  /\ storage' # storage
  /\ last' = Response("update_storage", NoId, OK, NoId, NoFile)
  /\ UNCHANGED <<files, artifacts, harvestErrors, lock, pc, req, resource, column_map, temp, monitored_path, user_set>>

\* ---------------------------------------------- report handler (§4.1, §4.3)
ReportStages ==
  {STAGE_FILE_METADATA, STAGE_DATA_SUMMARY, STAGE_UPLOAD_COMPLETE, STAGE_COMPLETE,
   STAGE_FAILED}

ErrorMaps == {{}, {1}}  \* the per-partition errors map of an upload_complete report

UploadCompleteStateMutErrorsIgnored(errors) == IMPORTED

\* §4.1, "upload complete": IMPORT_FAILED if the errors map is non-empty,
\* otherwise IMPORTED.
UploadCompleteState(errors) == IF errors # {} THEN IMPORT_FAILED ELSE IMPORTED

ReportNextStateMutGuarded(stage, cur, errors) ==
  CASE stage = STAGE_FILE_METADATA ->
         IF cur = AWAITING_FILE_METADATA THEN AWAITING_MAP_ASSIGNMENT ELSE cur
    [] stage = STAGE_UPLOAD_COMPLETE ->
         IF cur = IMPORTED THEN cur ELSE UploadCompleteState(errors)
    [] stage = STAGE_COMPLETE -> IMPORTED
    [] stage = STAGE_FAILED -> IF cur = IMPORTED THEN cur ELSE IMPORT_FAILED
    [] OTHER -> cur

ReportNextStateMutToggle(stage, cur, errors) ==
  CASE stage = STAGE_FILE_METADATA -> IMPORTING
    [] stage = STAGE_UPLOAD_COMPLETE -> UploadCompleteState(errors)
    [] stage = STAGE_COMPLETE -> IF cur = IMPORTED THEN IMPORT_FAILED ELSE IMPORTED
    [] stage = STAGE_FAILED -> IMPORT_FAILED
    [] OTHER -> cur

\* The state a SUCCESS import report of the given stage leaves the file in.
\* test_report sends file_metadata, complete and failed for one file in turn
\* and finds it IMPORTING, then IMPORTED, then IMPORT_FAILED: the stage
\* decides the state, whatever state the file was in (the failed report
\* arrives on an IMPORTED file). data_summary keeps the state (§4.1).
ReportNextState(stage, cur, errors) ==
  CASE stage = STAGE_FILE_METADATA -> IMPORTING
    [] stage = STAGE_UPLOAD_COMPLETE -> UploadCompleteState(errors)
    [] stage = STAGE_COMPLETE -> IMPORTED
    [] stage = STAGE_FAILED -> IMPORT_FAILED
    [] OTHER -> cur

\* The ObservedFile rows after a file_size report: the ObservedFile of the
\* path is created on first sight.
FilesAfterFileSize(fs) ==
  IF fs[HarvesterFile].state # NoFile THEN fs
  ELSE [fs EXCEPT ![HarvesterFile] =
          FileRow(AWAITING_FILE_METADATA, NoMapping, NoSummary)]

\* The ObservedFile rows once an import report recorded what it carries
\* (metadata, the errors of an upload_complete), the state not yet moved.
FilesAfterRecording(fs, stage, errors) ==
  [fs EXCEPT
     ![HarvesterFile].metadata = IF stage = STAGE_FILE_METADATA THEN TRUE ELSE @,
     ![HarvesterFile].upload_errors =
        IF stage = STAGE_UPLOAD_COMPLETE /\ errors # {} THEN errors ELSE @]

\* The ObservedFile rows after an import report on the existing file.
FilesAfterImport(fs, stage, errors) ==
  [FilesAfterRecording(fs, stage, errors) EXCEPT
     ![HarvesterFile].state = ReportNextState(stage, fs[HarvesterFile].state, errors)]

\* task file_size: the ObservedFile of the path is created on first sight.
ReportFileSize ==
  /\ HarvesterIdle
  /\ files' = FilesAfterFileSize(files)
  /\ last' = Response("file_size", HarvesterFile, OK, HarvesterFile, files[HarvesterFile].state)
  /\ UNCHANGED <<storage, artifacts, harvestErrors, lock, pc, req, resource, column_map, temp, monitored_path, user_set>>

\* task import, any stage without a payload to store.
ReportImport(stage, errors) ==
  /\ HarvesterIdle
  /\ stage \in ReportStages
  /\ stage # STAGE_UPLOAD_COMPLETE => errors = {}
  /\ LET f == HarvesterFile
         cur == files[f].state IN
     IF ~Exists(f)
     THEN \* "ObservedFile does not exist"
          /\ files' = files
          /\ last' = Answer(stage, f, BAD_REQUEST, NoId, cur, errors)
     ELSE /\ files' = FilesAfterImport(files, stage, errors)
          /\ last' = Answer(stage, f, OK, f, cur, errors)
  /\ UNCHANGED <<storage, artifacts, harvestErrors, lock, pc, req, resource, column_map, temp, monitored_path, user_set>>

\* ------------------------------------------- concurrent reports (§5)
\* A worker receives an import report for the harvester's file while
\* another may be serving one; what it holds of the file by then is a copy.
ReceiveReport(w, stage, errors) ==
  /\ pc[w] = "idle"
  /\ Exists(HarvesterFile)
  /\ stage \in ReportStages
  /\ stage # STAGE_UPLOAD_COMPLETE => errors = {}
  /\ req' = [req EXCEPT ![w] =
       [op |-> stage, file |-> HarvesterFile, number |-> 0, size |-> 0,
        chosen |-> NoStorage, errors |-> errors, copy |-> files]]
  /\ pc' = [pc EXCEPT ![w] = "received"]
  /\ UNCHANGED <<storage, files, artifacts, harvestErrors, lock, last, resource, column_map, temp, monitored_path, user_set>>

TransactionReadMutStaleCopy(w) == req[w].copy

\* The ObservedFile rows as the transaction of the request reads them: the
\* rows committed by then.
TransactionRead(w) == files

\* The transaction of the report: the file is read, the transition
\* computed from what was read, and the file saved.
ApplyReport(w) ==
  /\ pc[w] = "received"
  /\ LET r == req[w]
         fs == TransactionRead(w) IN
     /\ files' = [files EXCEPT ![r.file] = FilesAfterImport(fs, r.op, r.errors)[r.file]]
     /\ last' = Answer(r.op, r.file, OK, r.file, fs[r.file].state, r.errors)
                  @@ [held |-> r.copy[r.file].state]
  /\ pc' = [pc EXCEPT ![w] = "idle"]
  /\ req' = [req EXCEPT ![w] = NoRequest]
  /\ UNCHANGED <<storage, artifacts, harvestErrors, lock, resource, column_map, temp, monitored_path, user_set>>

\* status ERROR with an error payload: one HarvestError row.
ReportError ==
  /\ HarvesterIdle
  /\ harvestErrors < MaxHarvestErrors
  /\ harvestErrors' = harvestErrors + 1
  /\ last' = Response("error", NoId, OK, NoId, NoFile)
  /\ UNCHANGED <<storage, files, artifacts, lock, pc, req, resource, column_map, temp, monitored_path, user_set>>

\* Mapping assignment through the API (ObservedFileSerializer: mapping is
\* writable, state is read-only); an invalid mapping is rejected.
AssignMapping(f, m, valid) ==
  /\ Exists(f)
  /\ IF ~valid
     THEN /\ files' = files
          /\ last' = Response("assign_mapping", f, BAD_REQUEST, NoId, files[f].state)
     ELSE /\ files' = [files EXCEPT
               ![f].mapping = m,
               ![f].state = IF @ = AWAITING_MAP_ASSIGNMENT THEN IMPORTING ELSE @]
          /\ last' = Response("assign_mapping", f, OK, f, files[f].state)
  /\ UNCHANGED <<storage, artifacts, harvestErrors, lock, pc, req, resource, column_map, temp, monitored_path, user_set>>

\* ------------------------------- upload (ObservedFileCreateSerializer.create)
CREATED == "201"
SERVER_ERROR == "500"           \* a failure inside the handler

Parquet(n) == [parquet |-> TRUE, size |-> n]
OtherFile == [parquet |-> FALSE, size |-> 0]

\* What os.walk lists in the processor's output directory.
Listings ==
  {<<>>, <<Parquet(1)>>, <<Parquet(1), Parquet(1)>>, <<OtherFile, Parquet(1)>>,
   <<Parquet(100000)>>}

ParquetCount(listing) == Cardinality({i \in 1..Len(listing) : listing[i].parquet})

\* Lines 1898-1906: one ParquetPartition per .parquet entry, numbered by the
\* entry's index in the listing; the first refusal by storage raises.
RECURSIVE SavePartitions(_, _, _, _, _)
SavePartitions(st, arts, f, listing, i) ==
  IF i > Len(listing) THEN [arts |-> arts, ok |-> TRUE]
  ELSE IF ~listing[i].parquet THEN SavePartitions(st, arts, f, listing, i + 1)
  ELSE LET s == reserve(st, arts, listing[i].size) IN
       IF s = NoStorage THEN [arts |-> arts, ok |-> FALSE]
       ELSE SavePartitions(st,
              AddRow(arts, Row("parquet", f, i - 1, s, listing[i].size)),
              f, listing, i + 1)

UploadEndStateMutImporting(mapped, failed) ==
  IF failed THEN IMPORT_FAILED
  ELSE IF mapped THEN IMPORTING ELSE AWAITING_MAP_ASSIGNMENT

\* Lines 1912-1919: the state create() leaves the file in.
UploadEndState(mapped, failed) ==
  IF failed THEN IMPORT_FAILED
  ELSE IF mapped THEN IMPORTED ELSE AWAITING_MAP_ASSIGNMENT

\* A completed upload: the response, and the summary of the bytes sent.
Uploaded(f, code, id, before, sum) ==
  Response("upload", f, code, id, before) @@ [summary |-> sum]

\* create(validated_data) with target_file_id = target (NoId: a new file),
\* mapping = m, and the uploaded bytes described by what processing them
\* yields. validate_id looks at the field `id`, not at target_file_id, so a
\* request citing only target_file_id reaches create() whatever the state of
\* the file. Each partition's reservation locks the storage rows in turn.
Upload(target, m, sum, copied, summarised, applicable, processed, listing, pngSize) ==
  /\ lock = NoWorker
  /\ ~copied => temp < MaxTempFiles
  /\ ~copied => ~summarised
  \* NamedTemporaryFile(delete=False) leaves a file; os.unlink in the
  \* finally of the try that follows the copy removes it.
  /\ temp' = (temp + 1) - (IF copied THEN 1 ELSE 0)
  /\ sum \in Summaries
  /\ ~applicable => ~processed
  /\ target # NoId => Exists(target)
  /\ target = NoId => ~Exists(UploadedFile) /\ sum = FirstSummary
  /\ RowCount(artifacts) + ParquetCount(listing) + 1 <= MaxRows
  /\ IF ~copied
     THEN \* writing the chunks raised, before the try block was entered
          /\ UNCHANGED <<files, artifacts>>
          /\ last' = Uploaded(NoId, SERVER_ERROR, NoId, NoFile, NoSummary)
     ELSE IF ~summarised
     THEN \* summarise_columns raised before any ObservedFile was at hand
          /\ UNCHANGED <<files, artifacts>>
          /\ last' = Uploaded(NoId, BAD_REQUEST, NoId, NoFile, NoSummary)
     ELSE LET of == IF target # NoId THEN target ELSE UploadedFile
              before == files[of].state
              row == IF target # NoId THEN files[of]
                     ELSE FileRow(NoFile, NoMapping, sum)
              mismatch == target # NoId /\ row.summary # sum
              mapping == IF m # NoMapping \/ target = NoId THEN m ELSE row.mapping
              mapped == mapping # NoMapping
              withMap == [row EXCEPT !.mapping = mapping]
              saved == SavePartitions(storage, artifacts, of, listing, 1)
              noPng == Without(saved.arts, RowsOf(saved.arts, "png", of))
              pngStorage == reserve(storage, saved.arts, pngSize)
              End(r, failed) == [r EXCEPT !.state = UploadEndState(mapped, failed)]
          IN
          CASE mismatch \/ (mapped /\ ~applicable) ->
                 /\ files' = [files EXCEPT ![of] = End(row, TRUE)]
                 /\ artifacts' = artifacts
                 /\ last' = Uploaded(of, BAD_REQUEST, NoId, before, sum)
            [] ~mismatch /\ ~mapped ->
                 /\ files' = [files EXCEPT ![of] = End(row, FALSE)]
                 /\ artifacts' = artifacts
                 /\ last' = Uploaded(of, CREATED, of, before, sum)
            [] ~mismatch /\ mapped /\ applicable /\ ~processed ->
                 /\ files' = [files EXCEPT ![of] = End(withMap, TRUE)]
                 /\ artifacts' = artifacts
                 /\ last' = Uploaded(of, BAD_REQUEST, NoId, before, sum)
            [] ~mismatch /\ mapped /\ applicable /\ processed
                 /\ (~saved.ok \/ pngStorage = NoStorage) ->
                 /\ files' = [files EXCEPT ![of] = End(withMap, TRUE)]
                 /\ artifacts' = saved.arts
                 /\ last' = Uploaded(of, BAD_REQUEST, NoId, before, sum)
            [] OTHER ->
                 /\ files' = [files EXCEPT ![of] = End(withMap, FALSE)]
                 /\ artifacts' = AddRow(noPng, Row("png", of, 0, pngStorage, pngSize))
                 /\ last' = Uploaded(of, CREATED, of, before, sum)
  /\ UNCHANGED <<storage, harvestErrors, lock, pc, req, resource, column_map, monitored_path, user_set>>

\* ------------------------------------------- the report endpoint (§4.3, §6)
UNAUTHORIZED == "401"           \* status.HTTP_401_UNAUTHORIZED
FORBIDDEN == "403"              \* status.HTTP_403_FORBIDDEN

\* Who sends a request: the harvester with its own api_key, another
\* harvester with its own, a token no harvester has, users of the lab, and
\* a client that is not logged in.
OwnHarvester == "harvester"
OtherHarvester == "other_harvester"
BadToken == "bad_token"
User == "user"
LabAdmin == "lab_admin"
Anonymous == "anonymous"
Principals == {OwnHarvester, OtherHarvester, BadToken, User, LabAdmin, Anonymous}

Absent == "absent"              \* a field the request does not carry
STATUS_SUCCESS == "success"     \* settings.HARVESTER_STATUS_SUCCESS
STATUS_ERROR == "error"         \* settings.HARVESTER_STATUS_ERROR
TASK_FILE_SIZE == "file_size"   \* settings.HARVESTER_TASK_FILE_SIZE
TASK_IMPORT == "import"         \* settings.HARVESTER_TASK_IMPORT
Unknown == "unknown"            \* a task or stage the protocol does not have
PATH_MONITORED == "/a/b/c/d.ext"        \* under a MonitoredPath of the harvester
PATH_UNMATCHED == "/not/configured"     \* under none
SomeSize == "1024"
ERROR_TEXT == "test"                    \* an error payload that is a string
ERROR_STRUCT == "{test: test}"          \* one that is a structure
ERROR_JSON == "{\"test\": \"test\"}"      \* json.dumps of that structure

PayloadStages == {STAGE_UPLOAD_PARQUET, STAGE_UPLOAD_PNG}
KnownStages == ReportStages \cup PayloadStages

\* A report with no field set; the reports sent are this one with fields set.
Blank ==
  [status |-> Absent, path |-> Absent, task |-> Absent, stage |-> Absent,
   size |-> Absent, error |-> Absent, errors |-> {}, number |-> 0, bytes |-> 0]

\* A well-formed report of each kind, on the monitored file.
ErrorReport(e) ==
  [Blank EXCEPT !.status = STATUS_ERROR, !.path = PATH_MONITORED, !.error = e]

TaskReport(t, z) ==
  [Blank EXCEPT !.status = STATUS_SUCCESS, !.path = PATH_MONITORED, !.task = t, !.size = z]

ImportReport(g, e) ==
  [Blank EXCEPT !.status = STATUS_SUCCESS, !.path = PATH_MONITORED,
                !.task = TASK_IMPORT, !.stage = g, !.errors = e]

PayloadReport(g, k, n) ==
  [ImportReport(g, {}) EXCEPT !.number = k, !.bytes = n]

\* The reports a client sends: without status; ERROR with and without
\* payload; SUCCESS with every task and stage, known or not, with and
\* without the fields the task needs; and each of these without a path and
\* with a path under no MonitoredPath.
MonitoredReports ==
  {[Blank EXCEPT !.path = PATH_MONITORED]}
  \cup {ErrorReport(e) : e \in {Absent, ERROR_TEXT, ERROR_STRUCT}}
  \cup {TaskReport(t, Absent) : t \in {Absent, Unknown, TASK_FILE_SIZE}}
  \cup {TaskReport(TASK_FILE_SIZE, SomeSize)}
  \cup {ImportReport(g, {}) : g \in ReportStages \cup {Absent, Unknown}}
  \cup {ImportReport(STAGE_UPLOAD_COMPLETE, e) : e \in ErrorMaps}
  \cup {PayloadReport(STAGE_UPLOAD_PARQUET, k, n) :
          k \in PartitionNumbers, n \in Sizes \ {0}}
  \cup {PayloadReport(STAGE_UPLOAD_PNG, 0, n) : n \in Sizes \ {0}}

ElsewhereReports ==
  {[r EXCEPT !.path = p] :
     r \in {ErrorReport(Absent), ErrorReport(ERROR_TEXT), ErrorReport(ERROR_STRUCT),
            TaskReport(TASK_FILE_SIZE, SomeSize), ImportReport(STAGE_COMPLETE, {})},
     p \in {Absent, PATH_UNMATCHED}}

Reports == MonitoredReports \cup ElsewhereReports

AuthenticateMutAnyHarvester(p) ==
  CASE p \in {OwnHarvester, OtherHarvester} -> OK
    [] p \in {BadToken, Anonymous} -> UNAUTHORIZED
    [] OTHER -> FORBIDDEN

\* The credential check of the harvester's endpoints (report, config): the
\* harvester's own api_key passes; a token no harvester has is not
\* authenticated; another harvester and users are, and are refused.
Authenticate(p) ==
  CASE p = OwnHarvester -> OK
    [] p \in {BadToken, Anonymous} -> UNAUTHORIZED
    [] OTHER -> FORBIDDEN

ValidateMutNoPathCheck(fs, r) ==
  IF r.status \notin {STATUS_SUCCESS, STATUS_ERROR} THEN BAD_REQUEST
  ELSE IF r.status = STATUS_ERROR
       THEN (IF r.error = Absent THEN BAD_REQUEST ELSE OK)
  ELSE IF r.task = TASK_FILE_SIZE
       THEN (IF r.size = Absent THEN BAD_REQUEST ELSE OK)
  ELSE IF r.task = TASK_IMPORT
       THEN (IF fs[HarvesterFile].state = NoFile THEN BAD_REQUEST
             ELSE IF r.stage \notin KnownStages THEN BAD_REQUEST
             ELSE OK)
  ELSE BAD_REQUEST

ValidateMutLenient(fs, r) ==
  IF r.status = Absent THEN BAD_REQUEST
  ELSE IF r.status = STATUS_ERROR THEN OK
  ELSE IF r.path = Absent THEN BAD_REQUEST
  ELSE IF r.path # PATH_MONITORED THEN BAD_REQUEST
  ELSE IF r.task = TASK_FILE_SIZE THEN OK
  ELSE IF r.task = TASK_IMPORT
       THEN (IF fs[HarvesterFile].state = NoFile THEN BAD_REQUEST
             ELSE IF r.stage = Absent THEN BAD_REQUEST
             ELSE OK)
  ELSE BAD_REQUEST

\* The checks a report passes before anything is written, in the order of
\* test_report's cases: a status; for ERROR an error payload; for SUCCESS a
\* path, under a MonitoredPath of the harvester; a known task; for
\* file_size a size; for import an existing ObservedFile and a known stage.
Validate(fs, r) ==
  IF r.status \notin {STATUS_SUCCESS, STATUS_ERROR} THEN BAD_REQUEST
  ELSE IF r.status = STATUS_ERROR
       THEN (IF r.error = Absent THEN BAD_REQUEST ELSE OK)
  ELSE IF r.path = Absent THEN BAD_REQUEST
  ELSE IF r.path # PATH_MONITORED THEN BAD_REQUEST
  ELSE IF r.task = TASK_FILE_SIZE
       THEN (IF r.size = Absent THEN BAD_REQUEST ELSE OK)
  ELSE IF r.task = TASK_IMPORT
       THEN (IF fs[HarvesterFile].state = NoFile THEN BAD_REQUEST
             ELSE IF r.stage \notin KnownStages THEN BAD_REQUEST
             ELSE OK)
  ELSE BAD_REQUEST

\* The rows a request reads and writes.
Rows(fs, arts, errs) == [files |-> fs, artifacts |-> arts, harvestErrors |-> errs]

\* The write of a payload report r to the storage type chosen for it.
PayloadRequest(r, chosen) ==
  [op |-> r.stage, file |-> HarvesterFile, number |-> r.number, size |-> r.bytes,
   chosen |-> chosen]

\* The rows once a valid report made the first of its writes.
RowsAfterFirstWrite(rows, r, chosen) ==
  CASE r.status = STATUS_ERROR ->
         [rows EXCEPT !.harvestErrors = @ + 1]
    [] r.task = TASK_FILE_SIZE ->
         [rows EXCEPT !.files = FilesAfterFileSize(@)]
    [] r.stage \in PayloadStages ->
         [rows EXCEPT !.artifacts = CommitRows(@, PayloadRequest(r, chosen))]
    [] OTHER ->
         [rows EXCEPT !.files = FilesAfterRecording(@, r.stage, r.errors)]

\* The rows once a valid report made all of its writes.
RowsAfterReport(rows, r, chosen) ==
  IF r.status = STATUS_SUCCESS /\ r.task = TASK_IMPORT /\ r.stage \in ReportStages
  THEN [rows EXCEPT !.files = FilesAfterImport(@, r.stage, r.errors)]
  ELSE RowsAfterFirstWrite(rows, r, chosen)

TransactionMutNoRollback(before, partial, after, completes) ==
  IF completes THEN after ELSE partial

\* The transaction around a report's writes: all of them, or none.
Transaction(before, partial, after, completes) ==
  IF completes THEN after ELSE before

\* What the response says the request was: the task or stage of a report
\* that was carried out, "report" for one that was not.
OpOf(r, code) ==
  IF code # OK THEN "report"
  ELSE IF r.status = STATUS_ERROR THEN "error"
  ELSE IF r.task = TASK_FILE_SIZE THEN TASK_FILE_SIZE
  ELSE r.stage

StoredErrorMutAsSent(e) == e

\* The text a HarvestError row holds for an error payload: a string as it
\* is, a structure as its JSON text.
StoredError(e) == IF e = ERROR_STRUCT THEN ERROR_JSON ELSE e

\* A completed request to a harvester endpoint: the answer, who asked and
\* what was sent. id is what the response identifies: the ObservedFile, or
\* the HarvestError created, by its text.
Reply(p, r, op, f, code, id, before) ==
  [op |-> op, file |-> f, code |-> code, id |-> id, before |-> before,
   errors |-> r.errors, by |-> p, report |-> r]

\* POST harvesters/<id>/report/: the whole handler. completes is whether
\* the handler gets through once it began to write; a handler with one
\* write has no step to fail at between its writes.
Ingest(p, r, completes) ==
  /\ p = OwnHarvester => HarvesterIdle
  /\ lock = NoWorker
  /\ LET before == files[HarvesterFile].state
         auth == Authenticate(p)
         valid == Validate(files, r)
         payload == r.stage \in PayloadStages
         chosen == IF payload THEN reserve(storage, artifacts, r.bytes) ELSE NoStorage
         now == Rows(files, artifacts, harvestErrors)
         partial == RowsAfterFirstWrite(now, r, chosen)
         after == RowsAfterReport(now, r, chosen)
         end == Transaction(now, partial, after, completes)
     IN
     IF auth # OK
     THEN /\ completes
          /\ UNCHANGED <<files, artifacts, harvestErrors>>
          /\ last' = Reply(p, r, "report", NoId, auth, NoId, NoFile)
     ELSE IF valid # OK
     THEN /\ completes
          /\ UNCHANGED <<files, artifacts, harvestErrors>>
          /\ last' = Reply(p, r, "report", NoId, valid, NoId, NoFile)
     ELSE IF payload /\ chosen = NoStorage
     THEN /\ completes
          /\ UNCHANGED <<files, artifacts, harvestErrors>>
          /\ last' = Reply(p, r, r.stage, HarvesterFile, INSUFFICIENT_STORAGE, NoId, before)
     ELSE /\ ~completes => partial # after
          /\ r.status = STATUS_ERROR => harvestErrors < MaxHarvestErrors
          /\ payload => RowCount(artifacts) < MaxRows
          /\ files' = end.files
          /\ artifacts' = end.artifacts
          /\ harvestErrors' = end.harvestErrors
          /\ last' =
               IF ~completes
               THEN Reply(p, r, "report", HarvesterFile, SERVER_ERROR, NoId, before)
               ELSE IF r.status = STATUS_ERROR
               THEN Reply(p, r, "error", NoId, OK, StoredError(r.error), NoFile)
               ELSE Reply(p, r, OpOf(r, OK), HarvesterFile, OK, HarvesterFile, before)
  /\ UNCHANGED <<storage, lock, pc, req, resource, column_map, temp, monitored_path, user_set>>

\* GET harvesters/<id>/config/: the harvester reads its configuration.
ReadConfig(p) ==
  /\ last' = Reply(p, Blank, "config", NoId, Authenticate(p), NoId, NoFile)
  /\ UNCHANGED <<storage, files, artifacts, harvestErrors, lock, pc, req, resource, column_map, temp, monitored_path, user_set>>

\* --------------------------------------------------- access model (§4.6)
\* One lab with two teams, a team of another lab, and the users: a
\* superuser, the lab's administrator, team A's administrator (a member
\* too), members of A, of A and B, of B, of the other lab's team, and a
\* client that is not logged in.
TeamOrder == <<"teamA", "teamB", "teamC">>
Teams == {TeamOrder[i] : i \in 1..Len(TeamOrder)}
LabOf(t) == IF t = TeamOrder[3] THEN "lab2" ELSE "lab1"
Superuser == "root"
Users ==
  {Superuser, LabAdmin, "admin_a", "member_a", "member_ab", "member_b", "member_c",
   Anonymous}

admin_group(t) == IF t = TeamOrder[1] THEN {"admin_a"} ELSE {}

member_group(t) ==
  CASE t = TeamOrder[1] -> {"admin_a", "member_a", "member_ab"}
    [] t = TeamOrder[2] -> {"member_ab", "member_b"}
    [] OTHER -> {"member_c"}

lab_admin_group(lab) == IF lab = LabOf(TeamOrder[1]) THEN {LabAdmin} ELSE {}

is_superuser(u) == u = Superuser

\* user_auth_details.team_ids: the teams the user belongs to.
team_ids(u) == {t \in Teams : u \in admin_group(t) \cup member_group(t)}

LevelInMutMemberFirst(u, team) ==
  IF u \in member_group(team) THEN TEAM_MEMBER
  ELSE IF u \in admin_group(team) THEN TEAM_ADMIN
  ELSE IF \E t \in team_ids(u) : LabOf(t) = LabOf(team) THEN LAB_MEMBER
  ELSE ANONYMOUS

\* The user's level relative to a team (§4.6, step 3).
LevelIn(u, team) ==
  IF u \in admin_group(team) THEN TEAM_ADMIN
  ELSE IF u \in member_group(team) THEN TEAM_MEMBER
  ELSE IF \E t \in team_ids(u) : LabOf(t) = LabOf(team) THEN LAB_MEMBER
  ELSE ANONYMOUS

Kinds == {"read", "edit", "delete"}

\* The resource's threshold for a kind of access.
Threshold(res, kind) ==
  CASE kind = "read" -> res.read_access_level
    [] kind = "edit" -> res.edit_access_level
    [] OTHER -> res.delete_access_level

\* capability(principal, resource, kind), in its resolution order (§4.6).
capability(u, res, kind) ==
  IF is_superuser(u) THEN TRUE
  ELSE IF u \in lab_admin_group(LabOf(res.team)) THEN TRUE
  ELSE LevelIn(u, res.team) >= Threshold(res, kind)

\* instance.get_user_level(request): the editor's level on the resource.
get_user_level(u, res) ==
  IF is_superuser(u) \/ u \in lab_admin_group(LabOf(res.team)) THEN LAB_ADMIN
  ELSE LevelIn(u, res.team)

\* The levels a threshold is chosen from (those of deletion start at the
\* default), and the teams a request names.
ThresholdLevels == {LAB_MEMBER, TEAM_MEMBER, TEAM_ADMIN}
DeleteLevels == {TEAM_MEMBER, TEAM_ADMIN}
TeamChoices == {TeamOrder[1], TeamOrder[2]}

\* attrs: the fields a request carries, as a function of the field names.
NoAttrs == [k \in {} |-> NoTeam]
TeamAttrs == {NoAttrs} \cup {[team |-> t] : t \in TeamChoices}
ReadAttrs == {NoAttrs} \cup {[read_access_level |-> l] : l \in ThresholdLevels}
EditAttrs == {NoAttrs} \cup {[edit_access_level |-> l] : l \in ThresholdLevels}
DeleteAttrs == {NoAttrs} \cup {[delete_access_level |-> l] : l \in DeleteLevels}
\* What a request sends. On creation: a team and any of the three levels.
\* On update: up to two of the levels (a full update resends the levels
\* the resource has, which validate removes), or a team, alone or with a
\* level.
CreateAttrs ==
  {t @@ r @@ e @@ d : t \in TeamAttrs \ {NoAttrs}, r \in ReadAttrs, e \in EditAttrs,
                     d \in DeleteAttrs}
LevelAttrs ==
  {r @@ e : r \in ReadAttrs, e \in EditAttrs}
  \cup {r @@ d : r \in ReadAttrs, d \in DeleteAttrs}
  \cup {e @@ d : e \in EditAttrs, d \in DeleteAttrs}
MoveAttrs == {t @@ r : t \in TeamAttrs \ {NoAttrs}, r \in ReadAttrs}

\* The users who send updates: one of each standing towards the lab's teams.
Editors == {LabAdmin, "admin_a", "member_a", "member_ab", "member_b", Anonymous}

LevelFields == {"read_access_level", "edit_access_level", "delete_access_level"}

Has(attrs, k) == k \in DOMAIN attrs

\* attrs.get(k, default)
Get(attrs, k, default) == IF Has(attrs, k) THEN attrs[k] ELSE default

validate_teamMutDestinationOnly(u, inst, attrs) ==
  Has(attrs, "team") => attrs.team \in team_ids(u)

\* WithTeamMixin.validate_team: the team named is one of the user's teams,
\* and so is the team of the instance that is edited.
validate_team(u, inst, attrs) ==
  Has(attrs, "team") =>
    /\ attrs.team \in team_ids(u)
    /\ inst.exists => inst.team \in team_ids(u)

\* WithTeamMixin.validate, first step: the access levels sent with the
\* value the instance has are removed from attrs.
RemoveUnchanged(inst, attrs) ==
  IF ~inst.exists THEN attrs
  ELSE [k \in {j \in DOMAIN attrs : ~(j \in LevelFields /\ inst[j] = attrs[j])} |->
          attrs[k]]

EditorAllowedMutNoAdminCheck(inst, level, attrs) ==
  (Has(attrs, "read_access_level") \/ Has(attrs, "edit_access_level")) =>
     /\ level >= TEAM_MEMBER
     /\ \A k \in {"read_access_level", "edit_access_level"} :
          Has(attrs, k) => inst[k] <= level

\* WithTeamMixin.validate, on an instance: who may change which level.
EditorAllowed(inst, level, attrs) ==
  /\ (Has(attrs, "read_access_level") \/ Has(attrs, "edit_access_level")) =>
       /\ level >= TEAM_MEMBER
       /\ \A k \in {"read_access_level", "edit_access_level"} :
            Has(attrs, k) => inst[k] <= level
  /\ Has(attrs, "delete_access_level") => level >= TEAM_ADMIN

\* WithTeamMixin.validate, the hierarchy READ <= EDIT <= DELETE as it is
\* checked: the read level sent against the edit level, the edit level
\* sent against the delete level.
HierarchyChecked(inst, attrs) ==
  /\ Has(attrs, "read_access_level") =>
       attrs.read_access_level <=
         Get(attrs, "edit_access_level",
             IF inst.exists THEN inst.edit_access_level ELSE TEAM_ADMIN)
  /\ Has(attrs, "edit_access_level") =>
       attrs.edit_access_level <=
         Get(attrs, "delete_access_level",
             IF inst.exists THEN inst.delete_access_level ELSE TEAM_ADMIN)

\* WithTeamMixin.validate: attrs as validated, or rejected.
validate(inst, level, attrs) ==
  LET changed == RemoveUnchanged(inst, attrs) IN
  IF (inst.exists => EditorAllowed(inst, level, changed))
     /\ HierarchyChecked(inst, changed)
  THEN [ok |-> TRUE, attrs |-> changed]
  ELSE [ok |-> FALSE, attrs |-> changed]

\* The instance with the validated attrs set on it.
Saved(inst, attrs) ==
  [k \in DOMAIN inst |-> IF k = "exists" THEN TRUE ELSE Get(attrs, k, inst[k])]

\* A completed request of the access model: who asked, what was sent, the
\* editor's level on the resource, the answer.
AccessReply(op, u, attrs, level, code, allowed) ==
  [op |-> op, file |-> NoId, code |-> code, id |-> NoId, before |-> NoFile,
   errors |-> {}, by |-> u, attrs |-> attrs, level |-> level, allowed |-> allowed]

\* POST: a resource is created. The serializer fills in the defaults of
\* the levels that are not sent; the team has to be named.
CreateResource(u, sent) ==
  /\ ~resource.exists
  /\ Has(sent, "team")
  /\ LET attrs == [k \in LevelFields \cup {"team"} |-> Get(sent, k, NoResource[k])]
         v == validate(resource, ANONYMOUS, attrs) IN
     IF validate_team(u, resource, attrs) /\ v.ok
     THEN /\ resource' = Saved(resource, v.attrs)
          /\ last' = AccessReply("create", u, sent, ANONYMOUS, CREATED, TRUE)
     ELSE /\ resource' = resource
          /\ last' = AccessReply("create", u, sent, ANONYMOUS, BAD_REQUEST, FALSE)
  /\ UNCHANGED <<pipeline, column_map, temp, monitored_path, user_set>>

\* PUT or PATCH: the resource is updated by a user with edit capability
\* on it; anyone else is refused before the serializer is reached.
UpdateResource(u, sent) ==
  /\ resource.exists
  /\ LET level == get_user_level(u, resource)
         v == validate(resource, level, sent) IN
     IF ~capability(u, resource, "edit")
     THEN /\ resource' = resource
          /\ last' = AccessReply("update", u, sent, level, FORBIDDEN, FALSE)
     ELSE IF validate_team(u, resource, sent) /\ v.ok
     THEN /\ resource' = Saved(resource, v.attrs)
          /\ last' = AccessReply("update", u, sent, level, OK, TRUE)
     ELSE /\ resource' = resource
          /\ last' = AccessReply("update", u, sent, level, BAD_REQUEST, FALSE)
  /\ UNCHANGED <<pipeline, column_map, temp, monitored_path, user_set>>

\* The permissions of a user on the resource are asked for.
CheckCapability(u, kind) ==
  /\ resource.exists
  /\ last' = AccessReply(kind, u, NoAttrs, LevelIn(u, resource.team), OK,
                         capability(u, resource, kind))
  /\ UNCHANGED <<pipeline, resource, column_map, temp, monitored_path, user_set>>

\* -------------------------------------------------- column mappings (§3)
\* The DataColumnType rows, by primary key: two required columns, an
\* optional numerical one and an optional textual one.
DataColumnTypes ==
  [t_time |-> [name |-> "Time", is_required |-> TRUE, data_type |-> "float"],
   t_volt |-> [name |-> "Voltage", is_required |-> TRUE, data_type |-> "float"],
   t_step |-> [name |-> "Step", is_required |-> FALSE, data_type |-> "int"],
   t_note |-> [name |-> "Note", is_required |-> FALSE, data_type |-> "str"]]

\* A primary key no DataColumnType has.
NoSuchType == "t_gone"

\* DataColumnType.objects.filter(is_required=True)
required_column_ids == {pk \in DOMAIN DataColumnTypes : DataColumnTypes[pk].is_required}

\* The values sent as multiplier or addition: the number 2, the text "2",
\* a text that is no number; and the defaults.
TWO == "2"
TWO_TEXT == "'2'"
NOT_A_NUMBER == "'x'"
ONE == "1"
ZERO == "0"

\* int(v) or float(v): the number, or no result for a ValueError.
type_fn(v) == IF v \in {TWO, TWO_TEXT} THEN TWO ELSE IF v \in {ONE, ZERO} THEN v ELSE Absent

\* The columns of a file, and the entries a map gives to a column.
RawColumns == <<"a", "b">>
NoEntry == [k \in {} |-> Absent]
Entry(pk) == [column_type |-> pk]
Renamed(pk) == Entry(pk) @@ [new_name |-> "renamed"]
Scaled(pk, v) == Entry(pk) @@ [multiplier |-> v]
Shifted(pk, v) == Entry(pk) @@ [addition |-> v]

\* The maps that are sent: of one column, any entry; of two columns in
\* either order, the entries that meet or miss each other on a required
\* column type.
SingleEntries ==
  {Entry(pk) : pk \in DOMAIN DataColumnTypes \cup {NoSuchType}}
  \cup {NoEntry, Renamed("t_time"), Renamed("t_note"), Scaled("t_step", TWO_TEXT),
        Scaled("t_volt", TWO),
        Scaled("t_step", NOT_A_NUMBER), Scaled("t_note", TWO), Shifted("t_note", TWO)}
FirstEntries == {Entry("t_time"), Entry("t_volt"), Renamed("t_time"), Shifted("t_step", TWO)}
SecondEntries == {Entry("t_time"), Entry("t_volt"), Entry("t_note"), Scaled("t_note", TWO)}
Maps ==
  {<<>>}
  \cup {<<<<RawColumns[1], e>>>> : e \in SingleEntries}
  \cup {<<<<RawColumns[i], e1>>, <<RawColumns[3 - i], e2>>>> :
          i \in 1..2, e1 \in FirstEntries, e2 \in SecondEntries}

\* The ValidationError raised for a column.
MapError(error, k, type, other) ==
  [error |-> error, column |-> k, type |-> type, other |-> other]

NumericalMutDefaultsSwapped(v) ==
  [k \in DOMAIN v \cup {"multiplier", "addition"} |->
     IF k = "multiplier" THEN type_fn(Get(v, "multiplier", ZERO))
     ELSE IF k = "addition" THEN type_fn(Get(v, "addition", ONE))
     ELSE v[k]]

\* The entry of a numerical column as it is stored: multiplier and
\* addition converted, 1 and 0 where they are not sent.
Numerical(v) ==
  [k \in DOMAIN v \cup {"multiplier", "addition"} |->
     IF k = "multiplier" THEN type_fn(Get(v, "multiplier", ONE))
     ELSE IF k = "addition" THEN type_fn(Get(v, "addition", ZERO))
     ELSE v[k]]

validate_entryMutNoRequiredCheck(k, v, supplied) ==
  IF ~Has(v, "column_type") THEN MapError("no_column_type", k, Absent, Absent)
  ELSE IF v.column_type \notin DOMAIN DataColumnTypes
  THEN MapError("invalid_column_type", k, v.column_type, Absent)
  ELSE LET column_type == DataColumnTypes[v.column_type] IN
    IF Has(v, "new_name") /\ column_type.is_required
    THEN MapError("cannot_rename", k, column_type.name, Absent)
    ELSE IF column_type.data_type \in {"int", "float"}
    THEN IF Absent \in {Numerical(v).multiplier, Numerical(v).addition}
         THEN MapError("not_a_number", k, column_type.data_type, Absent)
         ELSE MapError("none", k, Absent, Absent)
    ELSE IF Has(v, "multiplier") THEN MapError("multiplier", k, Absent, Absent)
    ELSE IF Has(v, "addition") THEN MapError("addition", k, Absent, Absent)
    ELSE MapError("none", k, Absent, Absent)

\* validate_map, the body of its loop for column k with entry v:
\* the error raised, "none" when the entry passes. supplied is
\* required_columns_supplied, as a sequence of <<pk, column>>.
validate_entry(k, v, supplied) ==
  IF ~Has(v, "column_type") THEN MapError("no_column_type", k, Absent, Absent)
  ELSE IF v.column_type \notin DOMAIN DataColumnTypes
  THEN MapError("invalid_column_type", k, v.column_type, Absent)
  ELSE LET column_type == DataColumnTypes[v.column_type] IN
    IF v.column_type \in required_column_ids
       /\ \E i \in 1..Len(supplied) : supplied[i][1] = v.column_type
    THEN MapError("already_assigned", k, column_type.name,
                  (CHOOSE p \in {supplied[i] : i \in 1..Len(supplied)} :
                     p[1] = v.column_type)[2])
    ELSE IF Has(v, "new_name") /\ column_type.is_required
    THEN MapError("cannot_rename", k, column_type.name, Absent)
    ELSE IF column_type.data_type \in {"int", "float"}
    THEN IF Absent \in {Numerical(v).multiplier, Numerical(v).addition}
         THEN MapError("not_a_number", k, column_type.data_type, Absent)
         ELSE MapError("none", k, Absent, Absent)
    ELSE IF Has(v, "multiplier") THEN MapError("multiplier", k, Absent, Absent)
    ELSE IF Has(v, "addition") THEN MapError("addition", k, Absent, Absent)
    ELSE MapError("none", k, Absent, Absent)

\* ColumnMappingSerializer.get_rendered_map: for each column the name and
\* the data type it gets, and for a numerical column the multiplier and
\* the addition, 1 and 0 where the stored entry has none.
get_rendered_map(map) ==
  [i \in 1..Len(map) |->
     LET value == map[i][2]
         data_column_type == DataColumnTypes[value.column_type]
         out == [new_name |-> Get(value, "new_name", data_column_type.name),
                 data_type |-> data_column_type.data_type] IN
     <<map[i][1],
       IF data_column_type.data_type \in {"int", "float"}
       THEN out @@ [multiplier |-> Get(value, "multiplier", ONE),
                    addition |-> Get(value, "addition", ZERO)]
       ELSE out>>]

\* The number a stored multiplier or addition stands for.
NumberOf(v) == CASE v = TWO -> 2 [] v = ONE -> 1 [] OTHER -> 0

\* New column values = (old column value + addition) * multiplier.
NewColumnValue(raw, rendered) ==
  (raw + NumberOf(rendered.addition)) * NumberOf(rendered.multiplier)

\* validate_map, the loop over value.items(): the items left, the
\* required columns supplied so far, new_value so far.
RECURSIVE validate_items(_, _, _)
validate_items(items, supplied, new_value) ==
  IF items = <<>> THEN [ok |-> TRUE, map |-> new_value, error |-> MapError("none", Absent, Absent, Absent)]
  ELSE LET k == Head(items)[1]
           v == Head(items)[2]
           e == validate_entry(k, v, supplied) IN
    IF e.error # "none" THEN [ok |-> FALSE, map |-> new_value, error |-> e]
    ELSE LET column_type == DataColumnTypes[v.column_type] IN
      validate_items(
        Tail(items),
        IF v.column_type \in required_column_ids
        THEN Append(supplied, <<v.column_type, k>>) ELSE supplied,
        Append(new_value,
               <<k, IF column_type.data_type \in {"int", "float"} THEN Numerical(v) ELSE v>>))

\* ColumnMappingSerializer.validate_map
validate_map(value) == validate_items(value, <<>>, <<>>)

\* A completed request to save the map of the column mapping.
MapReply(u, value, code, error) ==
  [op |-> "save_map", file |-> NoId, code |-> code, id |-> NoId, before |-> NoFile,
   errors |-> {}, map |-> value, error |-> error, by |-> u]

\* instance.observed_files.all(): the files the column mapping is set on.
observed_files(fs) == {f \in FileIds : fs[f].mapping \in Mappings}

\* instance.in_use
in_use(fs) == observed_files(fs) # {}

\* The harvester's file belongs to the first team, an uploaded file to
\* the second; a file is written by those who can edit it.
FileResource(f) ==
  [NoResource EXCEPT !.exists = TRUE,
                     !.team = IF f = HarvesterFile THEN TeamOrder[1] ELSE TeamOrder[2]]
has_object_write_permission(u, f) == capability(u, FileResource(f), "edit")

\* The users who save maps: a member of the first team, and one of both.
MapEditors == {"member_a", "member_ab"}

\* instance.map != attrs['map'], as dictionaries are compared: the order
\* of the items does not count.
MapDiffers(stored, map) ==
  {stored[i] : i \in 1..Len(stored)} # {map[i] : i \in 1..Len(map)}

MayWriteFilesMutAnyFile(u, fs) ==
  \E f \in observed_files(fs) : has_object_write_permission(u, f)

\* all([f.has_object_write_permission(request) for f in observed_files])
MayWriteFiles(u, fs) ==
  \A f \in observed_files(fs) : has_object_write_permission(u, f)

\* PATCH of the column mapping with a map by user u: validate_map, then
\* validate, then the map is stored.
SaveMapping(u, value) ==
  /\ LET v == validate_map(value) IN
     IF ~v.ok
     THEN /\ column_map' = column_map
          /\ last' = MapReply(u, value, BAD_REQUEST, v.error)
     ELSE IF MapDiffers(column_map, v.map) /\ in_use(files) /\ ~MayWriteFiles(u, files)
     THEN /\ column_map' = column_map
          /\ last' = MapReply(u, value, BAD_REQUEST, MapError("in_use", Absent, Absent, Absent))
     ELSE /\ column_map' = v.map
          /\ last' = MapReply(u, value, OK, v.error)
  /\ UNCHANGED <<pipeline, resource, temp, monitored_path, user_set>>

\* ------------------------------------------- monitored paths (§3, §4.6)
\* Three harvesters: two in the lab of the first team, one in another lab.
Harvesters == {"h1", "h2", "h3"}
HarvesterLab(h) == IF h = "h3" THEN LabOf(TeamOrder[3]) ELSE LabOf(TeamOrder[1])

\* get_user_auth_details(request).lab_ids: the labs of the user's teams.
lab_ids(u) == {LabOf(t) : t \in team_ids(u)}

\* user_auth_details.writeable_team_ids: the teams the user administers.
writeable_team_ids(u) == {t \in Teams : u \in admin_group(t)}

\* What a request on a MonitoredPath sends.
PathAttrs ==
  {h @@ t @@ a :
     h \in {NoAttrs} \cup {[harvester |-> x] : x \in Harvesters},
     t \in {NoAttrs} \cup {[team |-> x] : x \in TeamChoices},
     a \in {NoAttrs} \cup {[active |-> x] : x \in BOOLEAN}}
PathUsers == {"admin_a", "member_a", LabAdmin}

validate_harvesterMutTakesValue(u, inst, value) ==
  IF value.lab \notin lab_ids(u) THEN [ok |-> FALSE, value |-> value.harvester]
  ELSE [ok |-> TRUE, value |-> value.harvester]

\* MonitoredPathSerializer.validate_harvester; value is the harvester
\* named and its lab.
validate_harvester(u, inst, value) ==
  IF inst.exists THEN [ok |-> TRUE, value |-> inst.harvester]
  ELSE IF value.lab \notin lab_ids(u) THEN [ok |-> FALSE, value |-> value.harvester]
  ELSE [ok |-> TRUE, value |-> value.harvester]

\* MonitoredPathSerializer.validate_team
validate_path_team(u, inst, value) ==
  IF inst.exists THEN [ok |-> TRUE, value |-> inst.team]
  ELSE IF value \notin writeable_team_ids(u) THEN [ok |-> FALSE, value |-> value]
  ELSE [ok |-> TRUE, value |-> value]

\* The fields of attrs validated one by one: the values to save, or a
\* ValidationError.
ValidatedPath(u, inst, attrs) ==
  LET h == IF Has(attrs, "harvester")
           THEN validate_harvester(u, inst, [harvester |-> attrs.harvester,
                                             lab |-> HarvesterLab(attrs.harvester)])
           ELSE [ok |-> TRUE, value |-> inst.harvester]
      t == IF Has(attrs, "team") THEN validate_path_team(u, inst, attrs.team)
           ELSE [ok |-> TRUE, value |-> inst.team] IN
  [ok |-> h.ok /\ t.ok,
   row |-> [exists |-> TRUE, harvester |-> h.value, team |-> t.value,
            active |-> Get(attrs, "active", inst.active)]]

\* A completed request on the MonitoredPath.
PathReply(op, u, attrs, code) ==
  [op |-> op, file |-> NoId, code |-> code, id |-> NoId, before |-> NoFile,
   errors |-> {}, by |-> u, path |-> attrs]

\* POST: harvester and team are required.
CreatePath(u, attrs) ==
  /\ ~monitored_path.exists
  /\ Has(attrs, "harvester") /\ Has(attrs, "team")
  /\ LET v == ValidatedPath(u, monitored_path, attrs) IN
     IF v.ok
     THEN /\ monitored_path' = v.row
          /\ last' = PathReply("create_path", u, attrs, CREATED)
     ELSE /\ monitored_path' = monitored_path
          /\ last' = PathReply("create_path", u, attrs, BAD_REQUEST)
  /\ UNCHANGED <<pipeline, resource, column_map, temp, user_set>>

\* PUT or PATCH.
UpdatePath(u, attrs) ==
  /\ monitored_path.exists
  /\ LET v == ValidatedPath(u, monitored_path, attrs) IN
     IF v.ok
     THEN /\ monitored_path' = v.row
          /\ last' = PathReply("update_path", u, attrs, OK)
     ELSE /\ monitored_path' = monitored_path
          /\ last' = PathReply("update_path", u, attrs, BAD_REQUEST)
  /\ UNCHANGED <<pipeline, resource, column_map, temp, user_set>>

\* ------------------------------------------------ groups of users (§5)
GroupUsers == ActiveUsers \cup {InactiveUser}

\* What a request sends for one group: nothing, or a list of users.
NotSent == [given |-> FALSE, users |-> {}]
SentLists == {NotSent} \cup {[given |-> TRUE, users |-> us] : us \in SUBSET GroupUsers}
NothingSent == [g \in Groups |-> NotSent]

\* The users field takes its choices from the active users; validate_users
\* then keeps the active ones of the list.
UsersFieldValid(sent) == sent.users \subseteq ActiveUsers
validate_users(value) == {u \in value : u \in ActiveUsers}

\* hasattr(instance, 'editable_lab'): the group is the admin group of a lab.
editable_lab(g) == g = LabAdminGroup

TransparentGroupUpdateMutNoLabCheck(g, current, sent) ==
  IF ~sent.given THEN [ok |-> TRUE, users |-> current]
  ELSE [ok |-> TRUE, users |-> validate_users(sent.users)]

\* TransparentGroupSerializer.update(instance, validated_data)
TransparentGroupUpdate(g, current, sent) ==
  IF ~sent.given THEN [ok |-> TRUE, users |-> current]
  ELSE IF editable_lab(g) /\ Cardinality(validate_users(sent.users)) < 1
  THEN [ok |-> FALSE, users |-> current]
  ELSE [ok |-> TRUE, users |-> validate_users(sent.users)]

\* A completed request on a lab or a team.
GroupReply(op, sent, code) ==
  [op |-> op, file |-> NoId, code |-> code, id |-> NoId, before |-> NoFile,
   errors |-> {}, sent |-> sent]

\* LabSerializer.update: admin_group is passed to the group serializer.
UpdateLab(admins) ==
  LET sent == [NothingSent EXCEPT ![LabAdminGroup] = admins]
      a == TransparentGroupUpdate(LabAdminGroup, user_set[LabAdminGroup], admins) IN
  /\ IF ~UsersFieldValid(admins) \/ ~a.ok
     THEN /\ user_set' = user_set
          /\ last' = GroupReply("update_lab", sent, BAD_REQUEST)
     ELSE /\ user_set' = [user_set EXCEPT ![LabAdminGroup] = a.users]
          /\ last' = GroupReply("update_lab", sent, OK)
  /\ UNCHANGED <<pipeline, resource, column_map, temp, monitored_path>>

\* TeamSerializer.update: admin_group, then member_group.
UpdateTeam(admins, members) ==
  LET sent == [NothingSent EXCEPT ![TeamAdminGroup] = admins,
                                  ![TeamMemberGroup] = members]
      a == TransparentGroupUpdate(TeamAdminGroup, user_set[TeamAdminGroup], admins)
      m == TransparentGroupUpdate(TeamMemberGroup, user_set[TeamMemberGroup], members) IN
  /\ IF ~UsersFieldValid(admins) \/ ~UsersFieldValid(members)
     THEN /\ user_set' = user_set
          /\ last' = GroupReply("update_team", sent, BAD_REQUEST)
     ELSE IF ~a.ok
     THEN /\ user_set' = user_set
          /\ last' = GroupReply("update_team", sent, BAD_REQUEST)
     ELSE IF ~m.ok
     THEN /\ user_set' = [user_set EXCEPT ![TeamAdminGroup] = a.users]
          /\ last' = GroupReply("update_team", sent, BAD_REQUEST)
     ELSE /\ user_set' = [user_set EXCEPT ![TeamAdminGroup] = a.users,
                                          ![TeamMemberGroup] = m.users]
          /\ last' = GroupReply("update_team", sent, OK)
  /\ UNCHANGED <<pipeline, resource, column_map, temp, monitored_path>>

\* ------------------------------------------------------------------ Next
Reservations ==
  \/ \E w \in Workers, n \in Sizes, number \in PartitionNumbers :
       ReserveBegin(w, STAGE_UPLOAD_PARQUET, number, n)
  \/ \E w \in Workers, n \in Sizes : ReserveBegin(w, STAGE_UPLOAD_PNG, 0, n)
  \/ \E w \in Workers, n \in Sizes : ReserveBegin(w, "arbitrary_file", 0, n)
  \/ \E w \in Workers : ReserveCommit(w)

Uploads ==
  \/ \E target \in FileIds \cup {NoId} :
       Upload(target, NoMapping, FirstSummary, TRUE, FALSE, FALSE, FALSE, <<>>, 0)
  \/ \E target \in FileIds \cup {NoId}, m \in Mappings \cup {NoMapping},
        sum \in Summaries, applicable, processed \in BOOLEAN :
       Upload(target, m, sum, TRUE, TRUE, applicable, processed, <<>>, 0)
  \/ \E target \in FileIds \cup {NoId}, m \in Mappings,
        listing \in Listings, pngSize \in Sizes :
       Upload(target, m, IF target = NoId THEN FirstSummary ELSE files[target].summary,
              TRUE, TRUE, TRUE, TRUE, listing, pngSize)

\* The harvester's reports that carry a payload to store, served one at a
\* time.
PayloadReports ==
  \/ \E number \in PartitionNumbers :
       ReserveBegin(WorkerOrder[1], STAGE_UPLOAD_PARQUET, number, 1)
  \/ ReserveBegin(WorkerOrder[1], STAGE_UPLOAD_PNG, 0, 1)
  \/ ReserveCommit(WorkerOrder[1])

\* The file state machine: every report of the harvester, mapping
\* assignment and uploads.
Next ==
  \/ PayloadReports
  \/ ReportFileSize
  \/ \E stage \in ReportStages, errors \in ErrorMaps : ReportImport(stage, errors)
  \/ ReportError
  \/ \E f \in FileIds, m \in Mappings, valid \in BOOLEAN : AssignMapping(f, m, valid)
  \/ Uploads

Spec == Init /\ [][Next]_vars

\* The storage allocator under concurrent reservations and reconfiguration.
NextStorage ==
  \/ Reservations
  \/ \E s \in StorageIds, p \in Priorities, e \in BOOLEAN : UpdateStorage(s, p, e)

SpecStorage == InitStorage /\ [][NextStorage]_vars

\* The harvester's endpoints, whoever calls them and whatever is sent.
NextReports ==
  \/ \E r \in Reports, completes \in BOOLEAN : Ingest(OwnHarvester, r, completes)
  \/ \E p \in Principals \ {OwnHarvester},
        r \in {ErrorReport(ERROR_TEXT), TaskReport(TASK_FILE_SIZE, SomeSize),
               ImportReport(STAGE_COMPLETE, {})} :
       Ingest(p, r, TRUE)
  \/ \E p \in Principals : ReadConfig(p)

SpecReports == Init /\ [][NextReports]_vars

\* Team-owned resources: created, updated, and asked about, by every user.
NextAccess ==
  \/ \E u \in Users, sent \in CreateAttrs : CreateResource(u, sent)
  \/ \E u \in Editors, sent \in LevelAttrs \cup MoveAttrs : UpdateResource(u, sent)
  \/ \E u \in Users, kind \in Kinds : CheckCapability(u, kind)

SpecAccess == Init /\ [][NextAccess]_vars

\* Two files waiting for a mapping: the harvester's, after its summary
\* was reported, and an uploaded one.
InitMapping ==
  /\ storage = [s \in StorageIds |-> [quota_bytes |-> 0, priority |-> 0, enabled |-> TRUE]]
  /\ files = [f \in FileIds |-> FileRow(AWAITING_MAP_ASSIGNMENT, NoMapping, FirstSummary)]
  /\ Idle

\* The map of a column mapping, saved again and again, while files take
\* the mapping.
NextMapping ==
  \/ \E u \in MapEditors, value \in Maps : SaveMapping(u, value)
  \/ \E f \in FileIds, m \in Mappings : AssignMapping(f, m, TRUE)

SpecMapping == InitMapping /\ [][NextMapping]_vars

\* Reports for one file served by two workers at a time.
NextConcurrent ==
  \/ \E w \in Workers, stage \in ReportStages, errors \in ErrorMaps :
       ReceiveReport(w, stage, errors)
  \/ \E w \in Workers : ApplyReport(w)
  \/ \E w \in Workers, number \in PartitionNumbers :
       ReserveBegin(w, STAGE_UPLOAD_PARQUET, number, 1)
  \/ \E w \in Workers : ReserveCommit(w)

\* The lab's storage as created, and the harvester's file being imported.
InitConcurrent ==
  /\ storage = [s \in StorageIds |->
       [quota_bytes |-> IF s = StorageOrder[1] THEN 2 ELSE 0,
        priority |-> 0, enabled |-> TRUE]]
  /\ files = [f \in FileIds |->
       IF f = HarvesterFile THEN FileRow(IMPORTING, NoMapping, NoSummary)
       ELSE FileRow(NoFile, NoMapping, NoSummary)]
  /\ Idle

SpecConcurrent == InitConcurrent /\ [][NextConcurrent]_vars

\* The groups of a lab and of a team, updated through their serializers.
NextGroups ==
  \/ \E admins \in SentLists : UpdateLab(admins)
  \/ \E admins, members \in SentLists : UpdateTeam(admins, members)

SpecGroups == Init /\ [][NextGroups]_vars

\* A MonitoredPath, created and updated.
NextPath ==
  \/ \E u \in PathUsers, attrs \in PathAttrs : CreatePath(u, attrs)
  \/ \E u \in PathUsers, attrs \in PathAttrs : UpdatePath(u, attrs)

SpecPath == Init /\ [][NextPath]_vars

\* Uploads through the API alone, the copy of the payload failing or not.
NextUpload ==
  \/ Uploads
  \/ \E target \in FileIds \cup {NoId} :
       Upload(target, NoMapping, FirstSummary, FALSE, FALSE, FALSE, FALSE, <<>>, 0)

SpecUpload == Init /\ [][NextUpload]_vars

\* ================================================================ claims
Used(s) == get_bytes_used(artifacts, s)

Reserving == {w \in Workers : pc[w] = "reserved"}

FitsNowhere(n) ==
  \A s \in StorageIds : ~storage[s].enabled \/ Used(s) + n > storage[s].quota_bytes

\* C2: an upload_parquet report whose payload fits in no enabled storage
\* type is answered 507, creates no ParquetPartition row and leaves the
\* file's state (IMPORTING) as it was.
C2_RefusedUploadLeavesFile ==
  [][\A w \in Workers :
       (/\ pc[w] = "reserved" /\ pc'[w] = "idle"
        /\ req[w].op = STAGE_UPLOAD_PARQUET
        /\ FitsNowhere(req[w].size))
       => (/\ last'.op = STAGE_UPLOAD_PARQUET
           /\ last'.code = INSUFFICIENT_STORAGE
           /\ artifacts' = artifacts
           /\ files' = files
           /\ files'[HarvesterFile].state = IMPORTING)]_vars

\* C2 witness: every quota is 0, a partition was refused and a 100,000-byte
\* one is about to be, the file is IMPORTING and has no partition.
C2_Witness ==
  /\ \A s \in StorageIds : storage[s].quota_bytes = 0
  /\ last.op = STAGE_UPLOAD_PARQUET /\ last.code = INSUFFICIENT_STORAGE
  /\ files[HarvesterFile].state = IMPORTING
  /\ PartitionNumbersOf(artifacts, HarvesterFile) = {}
  /\ \E w \in Workers : pc[w] = "reserved" /\ req[w].size = 100000

\* s has room for n bytes and is enabled, stated from the rows.
Fits(s, n) == storage[s].enabled /\ Used(s) + n <= storage[s].quota_bytes

\* C3: the storage type a reservation decides on is enabled, has room, and
\* no enabled storage type with room has a lower priority, or the same
\* priority and an earlier creation; the reservation fails exactly when no
\* enabled storage type has room.
C3_ReserveFirstFit ==
  \A w \in Reserving :
    LET c == req[w].chosen
        n == req[w].size IN
    /\ c = NoStorage <=> \A s \in StorageIds : ~Fits(s, n)
    /\ c # NoStorage =>
         /\ Fits(c, n)
         /\ \A t \in StorageIds \ {c} :
              Fits(t, n) =>
                \/ storage[c].priority < storage[t].priority
                \/ /\ storage[c].priority = storage[t].priority
                   /\ CreationIndex(c) < CreationIndex(t)

\* C3 witness: the later-created storage type is chosen because its priority
\* is lower, though the first one is enabled and has room too.
C3_Witness ==
  \E w \in Reserving :
    /\ req[w].chosen = StorageOrder[2]
    /\ req[w].size > 0
    /\ Fits(StorageOrder[1], req[w].size)
    /\ storage[StorageOrder[2]].priority < storage[StorageOrder[1]].priority

StateOf(f) == files[f].state

\* The last request addressed an ObservedFile.
OnFile == last.file \in FileIds

\* C4 as stated: whatever request finds a file in AWAITING_FILE_METADATA
\* leaves it there or in AWAITING_MAP_ASSIGNMENT.
C4_OnlyMapAssignmentReachable ==
  (OnFile /\ last.before = AWAITING_FILE_METADATA)
    => StateOf(last.file) \in {AWAITING_FILE_METADATA, AWAITING_MAP_ASSIGNMENT}

\* C4 amended: a metadata report received in AWAITING_FILE_METADATA records
\* parser, extra_metadata and the sample numbers and moves the file to
\* IMPORTING; from that state a complete report moves the file to IMPORTED
\* and a failed report to IMPORT_FAILED.
C4_MetadataFromInitialState ==
  (OnFile /\ last.before = AWAITING_FILE_METADATA /\ last.code = OK) =>
    /\ last.op = STAGE_FILE_METADATA =>
         StateOf(last.file) = IMPORTING /\ files[last.file].metadata
    /\ last.op = STAGE_COMPLETE => StateOf(last.file) = IMPORTED
    /\ last.op = STAGE_FAILED => StateOf(last.file) = IMPORT_FAILED

\* C4 witness: a metadata report was accepted for a file in its initial state.
C4_Witness ==
  /\ last.op = STAGE_FILE_METADATA /\ last.code = OK
  /\ last.before = AWAITING_FILE_METADATA
  /\ StateOf(HarvesterFile) = IMPORTING /\ files[HarvesterFile].metadata

C6_FailedExceptImported ==
  (last.op = STAGE_FAILED /\ last.code = OK) =>
    StateOf(last.file) = (IF last.before = IMPORTED THEN IMPORTED ELSE IMPORT_FAILED)

\* C6 amended: a failed report moves the file to IMPORT_FAILED from every
\* state, IMPORTED included.
C6_FailedAlwaysFails ==
  (last.op = STAGE_FAILED /\ last.code = OK) => StateOf(last.file) = IMPORT_FAILED

\* C6 witness: a failed report arrived while the import was under way.
C6_Witness ==
  /\ last.op = STAGE_FAILED /\ last.code = OK
  /\ last.before = IMPORTING
  /\ StateOf(HarvesterFile) = IMPORT_FAILED

\* C7: an accepted file_metadata report leaves the file IMPORTING and the
\* response carries the file's id.
C7_MetadataReportImporting ==
  (last.op = STAGE_FILE_METADATA /\ last.code = OK) =>
    /\ last.file = HarvesterFile
    /\ last.id = HarvesterFile
    /\ StateOf(HarvesterFile) = IMPORTING

\* C7 witness: a file_metadata report for an existing file was answered 200.
C7_Witness ==
  /\ last.op = STAGE_FILE_METADATA /\ last.code = OK
  /\ last.before \in FileState
  /\ last.id = HarvesterFile

\* C8: a complete report on an existing file is answered 200 and leaves it
\* IMPORTED; a failed report arriving on the IMPORTED file is answered 200
\* and leaves it IMPORT_FAILED.
C8_FailedAfterComplete ==
  /\ (last.op = STAGE_COMPLETE /\ last.before \in FileState)
       => (last.code = OK /\ StateOf(HarvesterFile) = IMPORTED)
  /\ (last.op = STAGE_FAILED /\ last.before = IMPORTED)
       => (last.code = OK /\ StateOf(HarvesterFile) = IMPORT_FAILED)

\* C8 witness: the failed report found the file IMPORTED.
C8_Witness ==
  /\ last.op = STAGE_FAILED /\ last.before = IMPORTED
  /\ last.code = OK /\ last.id = HarvesterFile
  /\ StateOf(HarvesterFile) = IMPORT_FAILED

\* C9: an upload_complete report on an IMPORTING file is answered 200 with
\* the file's id; with a non-empty errors map the file becomes IMPORT_FAILED
\* and holds the reported errors, with an empty one it becomes IMPORTED.
C9_UploadComplete ==
  (last.op = STAGE_UPLOAD_COMPLETE /\ last.before = IMPORTING) =>
    /\ last.code = OK /\ last.id = HarvesterFile
    /\ last.errors # {} =>
         /\ StateOf(HarvesterFile) = IMPORT_FAILED
         /\ files[HarvesterFile].upload_errors = last.errors
    /\ last.errors = {} => StateOf(HarvesterFile) = IMPORTED

\* C9 witness: the report carried errors and the file holds them.
C9_Witness ==
  /\ last.op = STAGE_UPLOAD_COMPLETE /\ last.before = IMPORTING
  /\ last.errors # {}
  /\ StateOf(HarvesterFile) = IMPORT_FAILED
  /\ files[HarvesterFile].upload_errors = last.errors

\* C10: a complete report resent right after the complete report that
\* finished the import is answered 200 again and changes nothing: the file
\* is still IMPORTED and no HarvestError or ParquetPartition row is added.
C10_ResendIsNoOp ==
  [][(/\ last.op = STAGE_COMPLETE /\ last.code = OK /\ last.before = IMPORTING
      /\ last'.op = STAGE_COMPLETE /\ last' # last)
     => (/\ last'.code = OK
         /\ last'.before = IMPORTED
         /\ files' = files
         /\ StateOf(HarvesterFile) = IMPORTED
         /\ artifacts' = artifacts
         /\ harvestErrors' = harvestErrors)]_vars

\* C10 witness: the second complete report found the file IMPORTED and left
\* it so.
C10_Witness ==
  /\ last.op = STAGE_COMPLETE /\ last.code = OK
  /\ last.before = IMPORTED
  /\ StateOf(HarvesterFile) = IMPORTED

\* ------------------------------------------------ claims on the endpoints
\* What the last request sent, and who sent it.
Sent == IF "report" \in DOMAIN last THEN last.report ELSE Blank

By == IF "by" \in DOMAIN last THEN last.by ELSE OwnHarvester

\* The last request was a report (not a read of the configuration).
Reported == "report" \in DOMAIN last /\ last.op # "config"

RowsNow == Rows(files, artifacts, harvestErrors)

Malformed(r) ==
  \/ r.task \notin {TASK_FILE_SIZE, TASK_IMPORT}
  \/ r.task = TASK_IMPORT /\ r.stage \notin KnownStages
  \/ r.task = TASK_FILE_SIZE /\ r.size = Absent

\* C13: a SUCCESS report of the harvester with an unknown task, an import
\* report with a missing or unknown stage, and a file_size report without
\* a size, is answered 400 and changes neither the ObservedFile, nor its
\* partitions, nor the HarvestError log.
C13_MalformedRejected ==
  [][(Reported' /\ By' = OwnHarvester /\ Sent'.status = STATUS_SUCCESS
        /\ Malformed(Sent'))
       => (last'.code = BAD_REQUEST /\ RowsNow' = RowsNow)]_vars

\* C13 witness: an import report with an unknown stage for the existing,
\* monitored file was rejected.
C13_Witness ==
  /\ Reported /\ By = OwnHarvester /\ last.code = BAD_REQUEST
  /\ Sent.status = STATUS_SUCCESS /\ Sent.path = PATH_MONITORED
  /\ Sent.task = TASK_IMPORT /\ Sent.stage = Unknown
  /\ files[HarvesterFile].state = IMPORTING

\* C14: an ERROR report of the harvester with an error payload is answered
\* 200 and adds exactly one HarvestError row, holding the string or the
\* JSON text of the structure, whatever its path; an ERROR report without
\* payload and a report without status are answered 400 and add none.
C14_ErrorReports ==
  [][(Reported' /\ By' = OwnHarvester) =>
       LET r == Sent' IN
       /\ (r.status = STATUS_ERROR /\ r.error # Absent) =>
            /\ last'.code = OK
            /\ harvestErrors' = harvestErrors + 1
            /\ last'.id = (IF r.error = ERROR_TEXT THEN ERROR_TEXT ELSE ERROR_JSON)
       /\ (r.status = Absent \/ (r.status = STATUS_ERROR /\ r.error = Absent)) =>
            /\ last'.code = BAD_REQUEST
            /\ harvestErrors' = harvestErrors]_vars

\* C14 witness: an ERROR report with a structure as payload and a path
\* under no MonitoredPath was accepted and the row is there.
C14_Witness ==
  /\ Reported /\ By = OwnHarvester /\ last.code = OK
  /\ Sent.status = STATUS_ERROR /\ Sent.error = ERROR_STRUCT
  /\ Sent.path = PATH_UNMATCHED
  /\ last.id = ERROR_JSON
  /\ harvestErrors > 0

\* The last request was made to an endpoint of the harvester.
Asked == "by" \in DOMAIN last

\* C15: a request to the harvester's endpoints is carried out only with the
\* harvester's own credential. A user (a lab administrator too) posting a
\* report gets 403; any other credential than the harvester's own gets 401
\* or 403, on the report and on the configuration; no request without the
\* harvester's own credential changes a file, a partition or the
\* HarvestError log.
C15_OwnCredentialOnly ==
  [][Asked' =>
       /\ By' # OwnHarvester =>
            (last'.code \in {UNAUTHORIZED, FORBIDDEN} /\ RowsNow' = RowsNow)
       /\ (By' \in {User, LabAdmin} /\ last'.op = "report") => last'.code = FORBIDDEN
       /\ (last'.code = OK \/ RowsNow' # RowsNow) => By' = OwnHarvester]_vars

\* C15 witness: the lab administrator posted a well-formed report for an
\* existing file and got 403.
C15_Witness ==
  /\ Asked /\ By = LabAdmin /\ last.op = "report" /\ last.code = FORBIDDEN
  /\ Sent.status = STATUS_SUCCESS /\ Sent.stage = STAGE_COMPLETE
  /\ files[HarvesterFile].state = IMPORTING

\* ------------------------------------------------ claims on team access
\* The last request was a create or an update of the team-owned resource.
Written == "attrs" \in DOMAIN last /\ last.op \in {"create", "update"}

\* READ <= EDIT <= DELETE on a resource.
Ordered(res) ==
  /\ res.read_access_level <= res.edit_access_level
  /\ res.edit_access_level <= res.delete_access_level

\* C16: after every successful create or update of a team-owned resource
\* read_access_level <= edit_access_level <= delete_access_level holds,
\* whichever thresholds the request sends; a write that would break the
\* ordering is rejected and changes none of the three thresholds.
C16_AccessLevelsOrdered ==
  [][Written' =>
       /\ last'.allowed => Ordered(resource')
       /\ ~Ordered(Saved(resource, last'.attrs)) =>
            /\ ~last'.allowed
            /\ \A k \in LevelFields : resource'[k] = resource[k]]_vars

\* C17: an update that changes the read or the edit threshold succeeds
\* only for an editor whose level on the resource is at least TEAM_MEMBER,
\* one that changes the delete threshold only for an editor of level at
\* least TEAM_ADMIN; an editor below that level who can edit the resource
\* gets a validation error, and a refused update leaves the thresholds as
\* stored. A threshold resent with its current value is not a change:
\* an editor resending only current values is answered 200.
C17_EditorLevelRequired ==
  [][(Written' /\ last'.op = "update") =>
       LET u == last'.by
           sent == last'.attrs
           level == get_user_level(u, resource)
           differs(k) == Has(sent, k) /\ sent[k] # resource[k] IN
       /\ (resource'.read_access_level # resource.read_access_level
           \/ resource'.edit_access_level # resource.edit_access_level) =>
            level >= TEAM_MEMBER
       /\ resource'.delete_access_level # resource.delete_access_level =>
            level >= TEAM_ADMIN
       /\ (capability(u, resource, "edit")
           /\ \/ (level < TEAM_MEMBER
                  /\ (differs("read_access_level") \/ differs("edit_access_level")))
              \/ (level < TEAM_ADMIN /\ differs("delete_access_level"))) =>
            last'.code = BAD_REQUEST
       /\ last'.code # OK => resource' = resource
       /\ (capability(u, resource, "edit") /\ ~Has(sent, "team")
           /\ \A k \in LevelFields : ~differs(k)) =>
            (last'.code = OK /\ resource' = resource)]_vars

\* C17 witness: a team member who can edit the resource resent its read
\* threshold unchanged together with another delete threshold, and was
\* refused with a validation error.
C17_Witness ==
  /\ Written /\ last.op = "update" /\ last.code = BAD_REQUEST
  /\ get_user_level(last.by, resource) = TEAM_MEMBER
  /\ capability(last.by, resource, "edit")
  /\ DOMAIN last.attrs = {"read_access_level", "delete_access_level"}
  /\ last.attrs.read_access_level = resource.read_access_level
  /\ last.attrs.delete_access_level # resource.delete_access_level
  /\ Ordered(Saved(resource, last.attrs))

\* C18: capability(principal, resource, kind) is true for a superuser and
\* for an administrator of the lab of the resource's team; for anyone else
\* it is true exactly when the principal's level relative to the team
\* (TEAM_ADMIN in its admin group, else TEAM_MEMBER in its member group,
\* else LAB_MEMBER in any team of the lab, else ANONYMOUS) is at least the
\* resource's threshold for the kind.
C18_Capability ==
  ("attrs" \in DOMAIN last /\ last.op \in Kinds) =>
    LET u == last.by
        team == resource.team
        relative ==
          CASE u \in admin_group(team) -> TEAM_ADMIN
            [] u \notin admin_group(team) /\ u \in member_group(team) -> TEAM_MEMBER
            [] u \notin admin_group(team) \cup member_group(team)
               /\ (\E t \in Teams : LabOf(t) = LabOf(team)
                                   /\ u \in admin_group(t) \cup member_group(t)) ->
                 LAB_MEMBER
            [] OTHER -> ANONYMOUS IN
    last.allowed <=>
      \/ is_superuser(u)
      \/ u \in lab_admin_group(LabOf(team))
      \/ relative >= Threshold(resource, last.op)

\* C18 witness: a user in both the admin and the member group of the team
\* asked to delete a resource that only TEAM_ADMIN deletes, and may.
C18_Witness ==
  /\ "attrs" \in DOMAIN last /\ last.op = "delete" /\ last.allowed
  /\ last.by \in admin_group(resource.team) \cap member_group(resource.team)
  /\ resource.delete_access_level = TEAM_ADMIN

MapSent == "map" \in DOMAIN last

\* The columns of a map that are given a required column type.
OnRequired(value, pk) ==
  {i \in 1..Len(value) :
     Has(value[i][2], "column_type") /\ value[i][2].column_type = pk}

\* C20: saving a map in which two raw columns are given the same required
\* column type is rejected and the stored map stays as it was; the error
\* of the second of the two columns names the two columns and the column
\* type, and it is the error raised when the entries of the map are in
\* order otherwise. In the stored map each required column type is given
\* to one raw column at most.
C20_RequiredColumnOnce ==
  [][MapSent' =>
       LET value == last'.map
           twice == {pk \in required_column_ids : Cardinality(OnRequired(value, pk)) > 1} IN
       /\ twice # {} => (last'.code = BAD_REQUEST /\ column_map' = column_map)
       /\ last'.error.error = "already_assigned" =>
            \E pk \in twice : \E i, j \in OnRequired(value, pk) :
              /\ i < j
              /\ last'.error.column = value[j][1]
              /\ last'.error.other = value[i][1]
              /\ last'.error.type = DataColumnTypes[pk].name
       /\ (twice # {} /\ \A i \in 1..Len(value) : DOMAIN value[i][2] = {"column_type"}) =>
            last'.error.error = "already_assigned"
       /\ \A pk \in required_column_ids : Cardinality(OnRequired(column_map', pk)) <= 1]_vars

\* C20 witness: with a map stored, a map giving Time to column b and then
\* to column a was rejected with the error naming a, b and Time.
C20_Witness ==
  /\ MapSent /\ last.code = BAD_REQUEST
  /\ last.error = MapError("already_assigned", RawColumns[1], "Time", RawColumns[2])
  /\ Len(last.map) = 2 /\ last.map[1][1] = RawColumns[2]
  /\ column_map # <<>>

\* The data type of the column type an entry names.
DataTypeOf(v) == DataColumnTypes[v.column_type].data_type

\* Old column values to convert.
RawValues == {0, 1, 3}

\* C21: in the stored map every entry of an int or float column type has
\* a multiplier and an addition, 1 and 0 where the map sent had none, and
\* the column's values become (raw_value + addition) * multiplier; no
\* entry of another column type has a multiplier or an addition. A map
\* that gives either to a non-numerical column, or a new_name to a
\* required column type, is rejected and the stored map stays.
C21_NumericalConversion ==
  [][MapSent' =>
       LET value == last'.map
           known(v) == Has(v, "column_type") /\ v.column_type \in DOMAIN DataColumnTypes
           numerical(v) == DataTypeOf(v) \in {"int", "float"} IN
       /\ \A i \in 1..Len(column_map') :
            LET v == column_map'[i][2]
                out == get_rendered_map(column_map')[i][2] IN
            /\ numerical(v) =>
                 /\ Has(v, "multiplier") /\ Has(v, "addition")
                 /\ v.multiplier \in {ZERO, ONE, TWO} /\ v.addition \in {ZERO, ONE, TWO}
                 /\ out.multiplier = v.multiplier /\ out.addition = v.addition
            /\ ~numerical(v) =>
                 /\ ~Has(v, "multiplier") /\ ~Has(v, "addition")
                 /\ ~Has(out, "multiplier") /\ ~Has(out, "addition")
            /\ DataColumnTypes[v.column_type].is_required => ~Has(v, "new_name")
       /\ last'.code = OK =>
            /\ Len(column_map') = Len(value)
            /\ \A i \in 1..Len(value) :
                 LET sent == value[i][2]
                     out == get_rendered_map(column_map')[i][2] IN
                 numerical(sent) =>
                   \A raw \in RawValues :
                     NewColumnValue(raw, out) =
                       (raw + (IF Has(sent, "addition") THEN 2 ELSE 0))
                         * (IF Has(sent, "multiplier") THEN 2 ELSE 1)
       /\ (\E i \in 1..Len(value) :
             /\ known(value[i][2])
             /\ \/ ~numerical(value[i][2])
                   /\ (Has(value[i][2], "multiplier") \/ Has(value[i][2], "addition"))
                \/ DataColumnTypes[value[i][2].column_type].is_required
                   /\ Has(value[i][2], "new_name")) =>
            (last'.code = BAD_REQUEST /\ column_map' = column_map)]_vars

\* C21 witness: a map with an addition for the int column and none for
\* the float column is stored, each with the other value at its default.
C21_Witness ==
  /\ MapSent /\ last.code = OK /\ Len(column_map) = 2
  /\ \E i, j \in 1..2 :
       /\ DataTypeOf(column_map[i][2]) = "int"
       /\ Has(last.map[i][2], "addition") /\ ~Has(last.map[i][2], "multiplier")
       /\ column_map[i][2].multiplier = ONE /\ column_map[i][2].addition = TWO
       /\ DataTypeOf(column_map[j][2]) = "float"
       /\ DOMAIN last.map[j][2] = {"column_type"}
       /\ column_map[j][2].multiplier = ONE /\ column_map[j][2].addition = ZERO

\* ----------------------------------------------------- claims on uploads
\* The last request was an upload that found or created an ObservedFile.
UploadedOn == last.op = "upload" /\ last.file # NoId

\* C22: an upload citing a file in AWAITING_MAP_ASSIGNMENT whose bytes
\* give another summary than the one stored fails with a validation
\* error and leaves the file as it was: state AWAITING_MAP_ASSIGNMENT,
\* mapping and partitions unchanged.
C22_MismatchLeavesFile ==
  [][(UploadedOn' /\ last'.before = AWAITING_MAP_ASSIGNMENT
        /\ files[last'.file].summary # last'.summary) =>
       /\ last'.code = BAD_REQUEST
       /\ files'[last'.file] = files[last'.file]
       /\ RowsOf(artifacts', "parquet", last'.file) = RowsOf(artifacts, "parquet", last'.file)]_vars

\* C23: an upload that fails once an ObservedFile is at hand leaves that
\* file in IMPORT_FAILED, and no upload, failed or not, leaves its
\* temporary copy of the payload behind.
C23_FailedAndCleanedUp ==
  [][last'.op = "upload" =>
       /\ (last'.file # NoId /\ last'.code # CREATED) =>
            files'[last'.file].state = IMPORT_FAILED
       /\ temp' = 0]_vars

\* C24: the map of a column mapping that files use changes only on the
\* request of a principal who may write every one of these files; the
\* request of anyone else to change it is rejected, and a rejected request
\* leaves the stored map as it was.
C24_MapInUse ==
  [][MapSent' =>
       LET u == last'.by
           items(map) == {map[i] : i \in 1..Len(map)}
           using == {f \in FileIds : files[f].mapping # NoMapping}
           writes == \A f \in using : has_object_write_permission(u, f) IN
       /\ (items(column_map') # items(column_map) /\ using # {}) => writes
       /\ (validate_map(last'.map).ok
           /\ items(validate_map(last'.map).map) # items(column_map)
           /\ using # {} /\ ~writes) =>
            last'.code = BAD_REQUEST
       /\ last'.code # OK => column_map' = column_map]_vars

\* C24 witness: with the mapping on both files and a map stored, a user
\* who may write one of the two files sent another, valid map and was
\* rejected.
C24_Witness ==
  /\ MapSent /\ last.code = BAD_REQUEST /\ last.error.error = "in_use"
  /\ \A f \in FileIds : files[f].mapping # NoMapping
  /\ \E f \in FileIds : has_object_write_permission(last.by, f)
  /\ \E f \in FileIds : ~has_object_write_permission(last.by, f)
  /\ column_map # <<>> /\ last.map # <<>>

PathAsked == "path" \in DOMAIN last

\* C26: the harvester and the team of a MonitoredPath are those it was
\* created with: no update changes them, and an update naming another
\* harvester or team leaves both as they were.
C26_HarvesterAndTeamFixed ==
  [][(PathAsked' /\ monitored_path.exists) =>
       /\ monitored_path'.harvester = monitored_path.harvester
       /\ monitored_path'.team = monitored_path.team
       /\ monitored_path'.exists]_vars

\* C26 witness: an update naming another harvester and another team was
\* answered 200, changed the path's active flag, and left both.
C26_Witness ==
  /\ PathAsked /\ last.op = "update_path" /\ last.code = OK
  /\ Has(last.path, "harvester") /\ last.path.harvester # monitored_path.harvester
  /\ Has(last.path, "team") /\ last.path.team # monitored_path.team
  /\ Has(last.path, "active") /\ ~monitored_path.active

\* ------------------------------------------------- claims on partitions
\* The ParquetPartition rows of file f number 0..n-1, each number once.
Contiguous(arts, f) ==
  LET rows == RowsOf(arts, "parquet", f) IN
  /\ \A r \in rows : arts[r] = 1
  /\ \A r1, r2 \in rows : r1.number = r2.number => r1 = r2
  /\ PartitionNumbersOf(arts, f) = 0..(Cardinality(rows) - 1)

\* C27: the ParquetPartitions of every ObservedFile carry the numbers
\* 0..n-1 with no gap and no duplicate, whatever else the output directory
\* of an upload holds.
C27_PartitionsContiguous == \A f \in FileIds : Contiguous(artifacts, f)

\* C28: an upload citing an existing file (target_file_id) that is not in
\* AWAITING_MAP_ASSIGNMENT is rejected, leaves the file's state and adds no
\* partition to it.
C28_TargetAwaitingOnly ==
  [][(UploadedOn' /\ last'.before \notin {NoFile, AWAITING_MAP_ASSIGNMENT}) =>
       /\ last'.code # CREATED
       /\ files'[last'.file].state = last'.before
       /\ RowsOf(artifacts', "parquet", last'.file)
            = RowsOf(artifacts, "parquet", last'.file)]_vars

\* The ParquetPartition rows of file f, each with how many times it is held.
ParquetBag(arts, f) == [r \in RowsOf(arts, "parquet", f) |-> arts[r]]

\* C29: an upload that leaves its file in IMPORT_FAILED leaves the file
\* with exactly the ParquetPartition rows it had before the request.
C29_AllOrNothing ==
  [][(UploadedOn' /\ last'.code = BAD_REQUEST
        /\ files'[last'.file].state = IMPORT_FAILED) =>
       ParquetBag(artifacts', last'.file) = ParquetBag(artifacts, last'.file)]_vars

\* ---------------------------------------------------- claims on groups
\* The last request was made on a lab or a team, and sent the empty list
\* for group g.
SentEmpty(g) ==
  "sent" \in DOMAIN last /\ last.sent[g].given /\ last.sent[g].users = {}

\* The last request sent only lists of active users.
SentValid == \A g \in Groups : UsersFieldValid(last.sent[g])

====
